---- MODULE Spec2Model ----
(***************************************************************************)
(* Risbee: a RISC-V (RV64IM subset) virtual machine.                       *)
(*                                                                         *)
(* Machine words are modelled as finite sets of bit positions: the word    *)
(* whose bits i1, i2, ... are set is the set {i1, i2, ...}.  A uint64 is a *)
(* subset of 0..63, a uint32 a subset of 0..31, an int64 is its two's      *)
(* complement pattern.  Bytes of Memory are the integers 0..255.           *)
(* Go's int is taken to be 64 bits wide (amd64/arm64 builds).              *)
(***************************************************************************)
EXTENDS Integers, Sequences, FiniteSets, TLC

(***************************************************************************)
(* Bounds of the model.                                                    *)
(***************************************************************************)
\* Instructions fetched, over all calls of Run.
MaxSteps == 4
\* Calls of Initialize, LoadFromBytes and Run made by the host.
MaxCalls == 3

(***************************************************************************)
(* Program constants.                                                      *)
(***************************************************************************)
RISBEE_STACK_SIZE == 65536
loadOffset == 4096

RISBEE_OPINST_LOAD == 3
RISBEE_OPINST_STORE == 35
RISBEE_OPINST_IMM == 19
RISBEE_OPINST_IALU == 27
RISBEE_OPINST_RT64 == 51
RISBEE_OPINST_RT32 == 59
RISBEE_OPINST_LUI == 55
RISBEE_OPINST_AUIPC == 23
RISBEE_OPINST_JAL == 111
RISBEE_OPINST_JALR == 103
RISBEE_OPINST_BRANCH == 99
RISBEE_OPINST_FENCE == 15
RISBEE_OPINST_CALL == 115

RISBEE_FC3_LB == 0
RISBEE_FC3_LHW == 1
RISBEE_FC3_LW == 2
RISBEE_FC3_LDW == 3
RISBEE_FC3_LBU == 4
RISBEE_FC3_LHU == 5
RISBEE_FC3_LRES == 6

RISBEE_FC3_SB == 0
RISBEE_FC3_SHW == 1
RISBEE_FC3_SW == 2
RISBEE_FC3_SDW == 3

RISBEE_FC3_ADDI == 0
RISBEE_FC3_SLLI == 1
RISBEE_FC3_SLTI == 2
RISBEE_FC3_SLTIU == 3
RISBEE_FC3_XORI == 4
RISBEE_FC3_SRLI == 5
RISBEE_FC3_ORI == 6
RISBEE_FC3_ANDI == 7

RISBEE_FC3_SLLIW == 0
RISBEE_FC3_SRLIW == 1
RISBEE_FC3_SRAIW == 5
RISBEE_FC3_SLLI64 == 6
RISBEE_FC3_SRLI64 == 7
RISBEE_FC3_SRAI64 == 8

RISBEE_FC3_BEQ == 0
RISBEE_FC3_BNE == 1
RISBEE_FC3_BLT == 4
RISBEE_FC3_BGE == 5
RISBEE_FC3_BLTU == 6
RISBEE_FC3_BGEU == 7

RISBEE_OPINST_RT32_ADDW == 0
RISBEE_OPINST_RT32_SUBW == 256
RISBEE_OPINST_RT32_SLLW == 1
RISBEE_OPINST_RT32_SRLW == 5
RISBEE_OPINST_RT32_SRAW == 261
RISBEE_OPINST_RT32_MULW == 8
RISBEE_OPINST_RT32_DIVW == 12
RISBEE_OPINST_RT32_DIVUW == 13
RISBEE_OPINST_RT32_REMW == 14
RISBEE_OPINST_RT32_REMUW == 15

RISBEE_OPINST_RT64_ADD == 0
RISBEE_OPINST_RT64_SUB == 256
RISBEE_OPINST_RT64_SLL == 1
RISBEE_OPINST_RT64_SLT == 2
RISBEE_OPINST_RT64_SLTU == 3
RISBEE_OPINST_RT64_XOR == 4
RISBEE_OPINST_RT64_SRL == 5
RISBEE_OPINST_RT64_SRA == 261
RISBEE_OPINST_RT64_OR == 6
RISBEE_OPINST_RT64_AND == 7
RISBEE_OPINST_RT64_MUL == 8
RISBEE_OPINST_RT64_MULH == 9
RISBEE_OPINST_RT64_MULHSU == 10
RISBEE_OPINST_RT64_MULHU == 11
RISBEE_OPINST_RT64_DIV == 12
RISBEE_OPINST_RT64_DIVU == 13
RISBEE_OPINST_RT64_REM == 14
RISBEE_OPINST_RT64_REMU == 15

(***************************************************************************)
(* Machine-word arithmetic on sets of bit positions.                       *)
(***************************************************************************)
W64 == 0..63
W32 == 0..31

RECURSIVE NatBitsFrom(_, _)
NatBitsFrom(n, i) ==
    IF n = 0 THEN {}
    ELSE (IF n % 2 = 1 THEN {i} ELSE {}) \cup NatBitsFrom(n \div 2, i + 1)

\* The bit pattern of a natural number n < 2^31.
NatBits(n) == NatBitsFrom(n, 0)

\* The 64-bit two's complement pattern of an integer |n| < 2^31.
Int64Of(n) == IF n >= 0 THEN NatBits(n) ELSE W64 \ NatBits((-n) - 1)

RECURSIVE ToNatFrom(_, _)
ToNatFrom(x, i) ==
    IF i < 0 THEN 0
    ELSE (IF i \in x THEN 2^i ELSE 0) + ToNatFrom(x, i - 1)

\* The natural number of a pattern below 2^31.
IsSmall(x) == x \subseteq 0..30
ToNat(x) == ToNatFrom(x, 30)

\* x << k, x >> k on unbounded patterns; Trunc cuts to a width.
Shl(x, k) == {b + k : b \in x}
Shr(x, k) == {b - k : b \in {c \in x : c >= k}}
Trunc(x, w) == x \cap (0..(w - 1))
And(x, y) == x \cap y
Or(x, y) == x \cup y
Xor(x, y) == (x \ y) \cup (y \ x)

\* Sign extension of a w-bit pattern to 64 bits (int64(intw(x))).
SignExtend(x, w) ==
    IF (w - 1) \in x THEN Trunc(x, w) \cup (w..63) ELSE Trunc(x, w)

\* Arithmetic right shift of a w-bit pattern by k, 0 <= k < w.
Sar(x, k, w) ==
    Shr(Trunc(x, w), k) \cup (IF (w - 1) \in x THEN (w - k)..(w - 1) ELSE {})

\* The carry into bit i of x + y: some lower bit generates a carry and
\* every bit between propagates it.
Carry(x, y, i) ==
    \E j \in 0..(i - 1) :
        /\ j \in x /\ j \in y
        /\ \A k \in (j + 1)..(i - 1) : k \in x \/ k \in y

\* Wrapping w-bit addition, negation and subtraction.
AddW(x, y, w) ==
    {i \in 0..(w - 1) : ((i \in x) # (i \in y)) # Carry(x, y, i)}
NegW(x, w) == AddW((0..(w - 1)) \ x, {0}, w)
SubW(x, y, w) == AddW(x, NegW(y, w), w)
Add64(x, y) == AddW(x, y, 64)
Sub64(x, y) == SubW(x, y, 64)

MaxBit(x) == CHOOSE b \in x : \A c \in x : c <= b

\* Unsigned and signed (w-bit two's complement) comparison.
LtU(x, y) == LET d == Xor(x, y) IN d # {} /\ MaxBit(d) \in y
LtS(x, y, w) ==
    IF ((w - 1) \in x) # ((w - 1) \in y) THEN (w - 1) \in x ELSE LtU(x, y)

\* The sum of the partial products x << i for the bits i of y in lo..hi.
RECURSIVE MulRange(_, _, _, _, _)
MulRange(x, y, lo, hi, w) ==
    IF lo = hi THEN (IF lo \in y THEN Trunc(Shl(x, lo), w) ELSE {})
    ELSE LET mid == (lo + hi) \div 2
         IN  AddW(MulRange(x, y, lo, mid, w), MulRange(x, y, mid + 1, hi, w), w)

\* Wrapping w-bit multiplication.
MulW(x, y, w) == MulRange(Trunc(x, w), Trunc(y, w), 0, w - 1, w)

\* Unsigned long division of x by y # 0, bits hi down to lo of x:
\* <<quotient, remainder>> after the partial result <<q, r>>.
RECURSIVE DivModFrom(_, _, _, _, _, _)
DivModFrom(x, y, hi, lo, q, r) ==
    IF hi < lo THEN <<q, r>>
    ELSE LET r2 == Shl(r, 1) \cup (IF hi \in x THEN {0} ELSE {})
         IN  IF LtU(r2, y)
             THEN DivModFrom(x, y, hi - 1, lo, q, r2)
             ELSE DivModFrom(x, y, hi - 1, lo, q \cup {hi}, SubW(r2, y, 65))

RECURSIVE DivModBytes(_, _, _, _)
DivModBytes(x, y, hi, qr) ==
    IF hi < 0 THEN qr
    ELSE DivModBytes(x, y, hi - 8,
                     DivModFrom(x, y, hi, hi - 7, qr[1], qr[2]))

DivU(x, y, w) == DivModBytes(Trunc(x, w), Trunc(y, w), w - 1, <<{}, {}>>)[1]
RemU(x, y, w) == DivModBytes(Trunc(x, w), Trunc(y, w), w - 1, <<{}, {}>>)[2]

\* Go's signed / and % (truncating toward zero) on w-bit patterns, y # 0.
AbsW(x, w) == IF (w - 1) \in x THEN NegW(x, w) ELSE Trunc(x, w)
DivS(x, y, w) ==
    LET q == DivU(AbsW(x, w), AbsW(y, w), w)
    IN  IF ((w - 1) \in x) # ((w - 1) \in y) THEN NegW(q, w) ELSE q
RemS(x, y, w) ==
    LET r == RemU(AbsW(x, w), AbsW(y, w), w)
    IN  IF (w - 1) \in x THEN NegW(r, w) ELSE r

Zero == {}
MinusOne == W64
LeU(x, y) == ~LtU(y, x)

(***************************************************************************)
(* Memory: the 64 KiB arena, zero-initialised.  Only the non-zero bytes    *)
(* are stored: Memory is a function from the addresses of the non-zero     *)
(* bytes to their values, every other address of 0..65535 holds 0.         *)
(* A byte slice is the same, with its length: [size, nz], 0-based.         *)
(***************************************************************************)
MemAt(M, a) == IF a \in DOMAIN M THEN M[a] ELSE 0

MemSet(M, a, v) ==
    IF v = 0 THEN [k \in DOMAIN M \ {a} |-> M[k]]
    ELSE [k \in DOMAIN M \cup {a} |-> IF k = a THEN v ELSE M[k]]

\* byte(v): the low 8 bits of a word, as a byte.
byte(v) == ToNat(Trunc(v, 8))

(***************************************************************************)
(* bits.go.  A slice b of vm.Memory is given by the arena M, the address a *)
(* of b[0] and len(b) = n.                                                 *)
(***************************************************************************)
uint16LittleEndian(M, a, n) ==
    IF n < 2 THEN {}
    ELSE Or(NatBits(MemAt(M, a)), Shl(NatBits(MemAt(M, a + 1)), 8))

uint32LittleEndian(M, a, n) ==
    IF n < 4 THEN {}
    ELSE Or(Or(NatBits(MemAt(M, a)), Shl(NatBits(MemAt(M, a + 1)), 8)),
            Or(Shl(NatBits(MemAt(M, a + 2)), 16),
               Shl(NatBits(MemAt(M, a + 3)), 24)))

uint64LittleEndian(M, a, n) ==
    IF n < 8 THEN {}
    ELSE Or(Or(Or(NatBits(MemAt(M, a)), Shl(NatBits(MemAt(M, a + 1)), 8)),
               Or(Shl(NatBits(MemAt(M, a + 2)), 16),
                  Shl(NatBits(MemAt(M, a + 3)), 24))),
            Or(Or(Shl(NatBits(MemAt(M, a + 4)), 32),
                  Shl(NatBits(MemAt(M, a + 5)), 40)),
               Or(Shl(NatBits(MemAt(M, a + 6)), 48),
                  Shl(NatBits(MemAt(M, a + 7)), 56))))

\* putUint16 as it would be in big-endian order.
putUint16BigEndian(M, a, n, v) ==
    IF n < 2 THEN M
    ELSE MemSet(MemSet(M, a, byte(Shr(v, 8))), a + 1, byte(v))

putUint16(M, a, n, v) ==
    IF n < 2 THEN M
    ELSE MemSet(MemSet(M, a, byte(v)), a + 1, byte(Shr(v, 8)))

\* putUint32 as it would be without the write of b[3].
putUint32ThreeBytes(M, a, n, v) ==
    IF n < 4 THEN M
    ELSE MemSet(MemSet(MemSet(M, a, byte(v)),
                       a + 1, byte(Shr(v, 8))),
                a + 2, byte(Shr(v, 16)))

putUint32(M, a, n, v) ==
    IF n < 4 THEN M
    ELSE MemSet(MemSet(MemSet(MemSet(M, a, byte(v)),
                              a + 1, byte(Shr(v, 8))),
                       a + 2, byte(Shr(v, 16))),
                a + 3, byte(Shr(v, 24)))

putUint64(M, a, n, v) ==
    IF n < 8 THEN M
    ELSE LET lo == MemSet(MemSet(MemSet(MemSet(M, a, byte(v)),
                                        a + 1, byte(Shr(v, 8))),
                                 a + 2, byte(Shr(v, 16))),
                          a + 3, byte(Shr(v, 24)))
         IN  MemSet(MemSet(MemSet(MemSet(lo, a + 4, byte(Shr(v, 32))),
                                  a + 5, byte(Shr(v, 40))),
                           a + 6, byte(Shr(v, 48))),
                    a + 7, byte(Shr(v, 56)))

(***************************************************************************)
(* shift.go.  x and y are int64 patterns.                                  *)
(***************************************************************************)
\* y >= 0 && y < n, and y < 0 && y > -n, for n = 64 or 128.
InRangePos(y, n) == y \subseteq (IF n = 64 THEN 0..5 ELSE 0..6)
InRangeNeg(y, n) == 63 \in y /\ InRangePos(NegW(y, 64), n)

shiftLeftInt64(x, y) ==
    IF InRangePos(y, 64) THEN Trunc(Shl(x, ToNat(y)), 64)
    ELSE IF InRangeNeg(y, 64) THEN Shr(x, ToNat(NegW(y, 64)))
    ELSE Zero

shiftRightInt64(x, y) ==
    IF InRangePos(y, 64) THEN Shr(x, ToNat(y))
    ELSE IF InRangeNeg(y, 64) THEN Trunc(Shl(x, ToNat(NegW(y, 64))), 64)
    ELSE Zero

shiftRightInt128(x, y) ==
    IF InRangePos(y, 128) THEN Shr(x, ToNat(y))
    ELSE IF InRangeNeg(y, 128) THEN Trunc(Shl(x, ToNat(NegW(y, 64))), 64)
    ELSE Zero

arithShiftRightInt64(x, y) ==
    IF InRangePos(y, 64) THEN Sar(x, ToNat(y), 64)
    ELSE IF 63 \notin y THEN (IF 63 \in x THEN MinusOne ELSE Zero)
    ELSE IF InRangeNeg(y, 64) THEN Trunc(Shl(x, ToNat(NegW(y, 64))), 64)
    ELSE Zero

(***************************************************************************)
(* The state: the fields of RisbeeVm, the position of the host in Run, and *)
(* what the host observes of the last step.                                *)
(***************************************************************************)
VARIABLES
    Memory,         \* vm.Memory, non-zero bytes only
    Registers,      \* vm.Registers, [0..31 -> uint64]
    Pc,             \* vm.Pc
    ExitCode,       \* vm.ExitCode, an int (64-bit pattern)
    Running,        \* vm.Running
    SysCalls,       \* vm.SysCalls, a function from codes to handlers
    SysCallsIsNil,  \* vm.SysCalls == nil (the map was never made)
    ExitCallback,   \* vm.ExitCallback != nil
    PanicCallback,  \* vm.PanicCallback != nil
    ctl,            \* "idle": outside Run; "loop": at the loop test of Run;
                    \* "aborted": a Go run-time panic unwound the host
    events,         \* the callbacks invoked by the last step, in order
    panics,         \* the calls of vm.panic made by the last step
    last,           \* the state the last step started from
    startPc,        \* vm.Pc when the current Run was entered
    loadResult,     \* what the last LoadFromBytes returned
    loaded,         \* the host's last call, if it was LoadFromBytes: its
                    \* Data, and whether the call before it was LoadFromBytes
                    \* of the same Data
    str,            \* what the host's last call returned, if it was
                    \* GetStringPointer, and the pointer it was given
    steps,          \* instructions fetched so far
    calls           \* Initialize, LoadFromBytes and Run calls so far

vars == <<Memory, Registers, Pc, ExitCode, Running, SysCalls, SysCallsIsNil,
          ExitCallback, PanicCallback, ctl, events, panics, last,
          startPc, loadResult, loaded, str, steps, calls>>

\* The VM as a value: what the methods below read and return.
VM == [Memory |-> Memory, Registers |-> Registers, Pc |-> Pc,
       ExitCode |-> ExitCode, Running |-> Running, SysCalls |-> SysCalls,
       SysCallsIsNil |-> SysCallsIsNil, ExitCallback |-> ExitCallback,
       PanicCallback |-> PanicCallback, events |-> <<>>, panics |-> 0,
       goPanic |-> FALSE]

Event(cb, msg, arg, vm) ==
    [cb |-> cb, msg |-> msg, arg |-> arg, running |-> vm.Running]

\* A Go run-time panic (index or slice bounds out of range, write to a nil
\* map): the statement has no effect and the panic unwinds out of the method.
GoPanic(vm) == [vm EXCEPT !.goPanic = TRUE]

(***************************************************************************)
(* Methods of RisbeeVm.                                                    *)
(***************************************************************************)
\* Initialize as it would be if it kept the syscall table.
InitializeKeepsSysCalls(vm, exitCallback, panicCallback) ==
    [vm EXCEPT !.Pc = NatBits(4096),
               !.ExitCode = Zero,
               !.Running = FALSE,
               !.SysCallsIsNil = FALSE,
               !.ExitCallback = exitCallback,
               !.PanicCallback = panicCallback]

\* Initialize as it would be if it also cleared the register file.
InitializeClearsRegisters(vm, exitCallback, panicCallback) ==
    [vm EXCEPT !.Registers = [r \in 0..31 |-> Zero],
               !.Pc = NatBits(4096),
               !.ExitCode = Zero,
               !.Running = FALSE,
               !.SysCalls = <<>>,
               !.SysCallsIsNil = FALSE,
               !.ExitCallback = exitCallback,
               !.PanicCallback = panicCallback]

Initialize(vm, exitCallback, panicCallback) ==
    [vm EXCEPT !.Pc = NatBits(4096),
               !.ExitCode = Zero,
               !.Running = FALSE,
               !.SysCalls = <<>>,
               !.SysCallsIsNil = FALSE,
               !.ExitCallback = exitCallback,
               !.PanicCallback = panicCallback]

\* Stop as it would be if it also recorded a failure.
StopSetsExitCode(vm) == [vm EXCEPT !.Running = FALSE, !.ExitCode = MinusOne]

Stop(vm) == [vm EXCEPT !.Running = FALSE]

setExitCode(vm, exitCode) == [vm EXCEPT !.ExitCode = exitCode]

\* LoadFromBytes as it would be if the size test were off by one.
LoadFromBytesOffByOne(vm, Data) ==
    LET size == Data.size
    IN  IF size = 0 \/ size >= RISBEE_STACK_SIZE - loadOffset
        THEN <<vm, FALSE>>
        ELSE LET dst == loadOffset..(loadOffset + size - 1)
                 src == {loadOffset + i : i \in DOMAIN Data.nz}
                 mem == [a \in (DOMAIN vm.Memory \ dst) \cup src |->
                            IF a \in src THEN Data.nz[a - loadOffset]
                            ELSE vm.Memory[a]]
             IN  <<[vm EXCEPT !.Memory = mem,
                              !.Registers[2] = NatBits(RISBEE_STACK_SIZE)],
                   TRUE>>

\* LoadFromBytes as it would be if it moved the stack pointer up by the
\* size of the arena instead of setting it.
LoadFromBytesMovesSp(vm, Data) ==
    LET size == Data.size
    IN  IF size = 0 \/ size > RISBEE_STACK_SIZE - loadOffset
        THEN <<vm, FALSE>>
        ELSE LET dst == loadOffset..(loadOffset + size - 1)
                 src == {loadOffset + i : i \in DOMAIN Data.nz}
                 mem == [a \in (DOMAIN vm.Memory \ dst) \cup src |->
                            IF a \in src THEN Data.nz[a - loadOffset]
                            ELSE vm.Memory[a]]
             IN  <<[vm EXCEPT !.Memory = mem,
                              !.Registers[2] =
                                  Add64(@, NatBits(RISBEE_STACK_SIZE))],
                   TRUE>>

\* LoadFromBytes as it would be if the stack pointer were set before the
\* size test.
LoadFromBytesSpFirst(vm, Data) ==
    LET size == Data.size
        set == [vm EXCEPT !.Registers[2] = NatBits(RISBEE_STACK_SIZE)]
    IN  IF size = 0 \/ size > RISBEE_STACK_SIZE - loadOffset
        THEN <<set, FALSE>>
        ELSE LET dst == loadOffset..(loadOffset + size - 1)
                 src == {loadOffset + i : i \in DOMAIN Data.nz}
                 mem == [a \in (DOMAIN vm.Memory \ dst) \cup src |->
                            IF a \in src THEN Data.nz[a - loadOffset]
                            ELSE vm.Memory[a]]
             IN  <<[set EXCEPT !.Memory = mem], TRUE>>

\* Data is a byte slice [size, nz].  Returns <<vm, ok>>.
LoadFromBytes(vm, Data) ==
    LET size == Data.size
    IN  IF size = 0 \/ size > RISBEE_STACK_SIZE - loadOffset
        THEN <<vm, FALSE>>
        ELSE LET dst == loadOffset..(loadOffset + size - 1)
                 src == {loadOffset + i : i \in DOMAIN Data.nz}
                 mem == [a \in (DOMAIN vm.Memory \ dst) \cup src |->
                            IF a \in src THEN Data.nz[a - loadOffset]
                            ELSE vm.Memory[a]]
             IN  <<[vm EXCEPT !.Memory = mem,
                              !.Registers[2] = NatBits(RISBEE_STACK_SIZE)],
                   TRUE>>

GetPointerParam(vm, Index) == vm.Registers[10 + Index]

\* The string "(null)".
nullString == <<40, 110, 117, 108, 108, 41>>

\* for end < uint64(len(mem)) && mem[end] != 0 { end++ }
RECURSIVE stringEnd(_, _)
stringEnd(mem, end) ==
    IF end < RISBEE_STACK_SIZE /\ MemAt(mem, end) # 0
    THEN stringEnd(mem, end + 1)
    ELSE end

\* GetStringPointer as it would be without the test for a zero pointer.
GetStringPointerNoNull(vm, Pointer) ==
    IF LtU(NatBits(RISBEE_STACK_SIZE), Pointer)
    THEN [vm |-> GoPanic(vm), str |-> <<>>]
    ELSE LET mem == vm.Memory
             start == ToNat(Pointer)
             end == stringEnd(mem, start)
         IN  [vm |-> vm,
              str |-> [i \in 1..(end - start) |-> MemAt(mem, start + i - 1)]]

\* Returns [vm, str], str a sequence of bytes.  mem[start:end] with start
\* beyond the arena is a Go run-time panic.
GetStringPointer(vm, Pointer) ==
    IF Pointer = Zero THEN [vm |-> vm, str |-> nullString]
    ELSE IF LtU(NatBits(RISBEE_STACK_SIZE), Pointer)
    THEN [vm |-> GoPanic(vm), str |-> <<>>]
    ELSE LET mem == vm.Memory
             start == ToNat(Pointer)
             end == stringEnd(mem, start)
         IN  [vm |-> vm,
              str |-> [i \in 1..(end - start) |-> MemAt(mem, start + i - 1)]]

SetSystemCall(vm, Address, Callback) ==
    IF vm.SysCallsIsNil THEN GoPanic(vm)
    ELSE [vm EXCEPT !.SysCalls =
            [c \in DOMAIN vm.SysCalls \cup {Address} |->
                IF c = Address THEN Callback ELSE vm.SysCalls[c]]]

\* Returns the handler and whether there is one: callback, ok := SysCalls[a].
GetSystemCall(vm, Address) ==
    IF Address \in DOMAIN vm.SysCalls
    THEN [callback |-> vm.SysCalls[Address], ok |-> TRUE]
    ELSE [callback |-> [ret |-> Zero, stop |-> FALSE], ok |-> FALSE]

\* panic as it would be without the call of setExitCode.
panicKeepsExitCode(vm, message) ==
    LET called == IF vm.PanicCallback
                  THEN [vm EXCEPT !.events =
                            Append(@, Event("panic", message, Zero, vm))]
                  ELSE vm
    IN  Stop([called EXCEPT !.panics = @ + 1])

\* panic as it would be without the call of Stop.
panicKeepsRunning(vm, message) ==
    LET called == IF vm.PanicCallback
                  THEN [vm EXCEPT !.events =
                            Append(@, Event("panic", message, Zero, vm))]
                  ELSE vm
    IN  setExitCode([called EXCEPT !.panics = @ + 1], MinusOne)

panic(vm, message) ==
    LET called == IF vm.PanicCallback
                  THEN [vm EXCEPT !.events =
                            Append(@, Event("panic", message, Zero, vm))]
                  ELSE vm
    IN  setExitCode(Stop([called EXCEPT !.panics = @ + 1]), MinusOne)

\* vm.Memory[vm.Pc : vm.Pc+4] is in bounds.
fetchInBounds(vm) == LeU(vm.Pc, NatBits(RISBEE_STACK_SIZE - 4))

fetch(vm) == uint32LittleEndian(vm.Memory, ToNat(vm.Pc), 4)

\* A syscall handler is host code; the ones of the model return the value
\* ret and, when stop is set, call vm.Stop() before returning.
callHandler(vm, code, fn) ==
    LET entered == [vm EXCEPT !.events =
                        Append(@, Event("syscall", "", code, vm))]
    IN  [vm |-> IF fn.stop THEN Stop(entered) ELSE entered, ret |-> fn.ret]

\* handleSyscall as it would be if an unknown code were ignored.
handleSyscallNoPanic(vm, code) ==
    IF code = Zero
    THEN LET exitCode == GetPointerParam(vm, 0)
             set == setExitCode(vm, exitCode)
             called == [set EXCEPT !.events =
                           Append(@, Event("exit", "", exitCode, set))]
         IN  [vm |-> IF vm.ExitCallback THEN Stop(called) ELSE set,
              ret |-> exitCode]
    ELSE IF code \in DOMAIN vm.SysCalls
    THEN callHandler(vm, code, vm.SysCalls[code])
    ELSE [vm |-> vm, ret |-> Zero]

\* handleSyscall as it would be if it stopped before the exit callback.
handleSyscallStopFirst(vm, code) ==
    IF code = Zero
    THEN LET exitCode == GetPointerParam(vm, 0)
             set == Stop(setExitCode(vm, exitCode))
             called == [set EXCEPT !.events =
                           Append(@, Event("exit", "", exitCode, set))]
         IN  [vm |-> IF vm.ExitCallback THEN called ELSE setExitCode(vm, exitCode),
              ret |-> exitCode]
    ELSE IF code \in DOMAIN vm.SysCalls
    THEN callHandler(vm, code, vm.SysCalls[code])
    ELSE [vm |-> panic(vm, "Invalid system call."), ret |-> Zero]

\* handleSyscall as it would be if the table were looked up before the test
\* for code 0.
handleSyscallTableFirst(vm, code) ==
    IF code \in DOMAIN vm.SysCalls
    THEN callHandler(vm, code, vm.SysCalls[code])
    ELSE IF code = Zero
    THEN LET exitCode == GetPointerParam(vm, 0)
             set == setExitCode(vm, exitCode)
             called == [set EXCEPT !.events =
                           Append(@, Event("exit", "", exitCode, set))]
         IN  [vm |-> IF vm.ExitCallback THEN Stop(called) ELSE set,
              ret |-> exitCode]
    ELSE [vm |-> panic(vm, "Invalid system call."), ret |-> Zero]

\* Returns [vm, ret].
handleSyscall(vm, code) ==
    IF code = Zero
    THEN LET exitCode == GetPointerParam(vm, 0)
             set == setExitCode(vm, exitCode)
             called == [set EXCEPT !.events =
                           Append(@, Event("exit", "", exitCode, set))]
         IN  [vm |-> IF vm.ExitCallback THEN Stop(called) ELSE set,
              ret |-> exitCode]
    ELSE IF code \in DOMAIN vm.SysCalls
    THEN callHandler(vm, code, vm.SysCalls[code])
    ELSE [vm |-> panic(vm, "Invalid system call."), ret |-> Zero]

(***************************************************************************)
(* execute: decoding and the thirteen opcode cases.                        *)
(***************************************************************************)
\* (inst >> lo) & (2^n - 1), as a number.
Bits(inst, lo, n) == ToNat(Trunc(Shr(inst, lo), n))

\* int64(int32(x << k) >> k) for a 32-bit x: sign extension from bit 31-k.
SextField(x, k) == SignExtend(Sar(Trunc(Shl(x, k), 32), k, 32), 32)

\* int64(int32(inst & 0xFFF00000) >> 20)
immI(inst) == SignExtend(Sar(And(inst, 20..31), 20, 32), 32)

immS(inst) ==
    LET imm11_5 == And(Shr(inst, 20), 5..11)
        imm4_0 == And(Shr(inst, 7), 0..4)
    IN  SextField(Or(imm11_5, imm4_0), 20)

immB(inst) ==
    LET imm12 == And(Shr(inst, 19), {12})
        imm10_5 == And(Shr(inst, 20), 5..10)
        imm4_1 == And(Shr(inst, 7), 1..4)
        imm11 == And(Trunc(Shl(inst, 4), 32), {11})
    IN  SextField(Or(Or(imm12, imm10_5), Or(imm4_1, imm11)), 19)

immJ(inst) ==
    LET imm20 == And(Shr(inst, 11), {20})
        imm10_1 == And(Shr(inst, 20), 1..10)
        imm11 == And(Shr(inst, 9), {11})
        imm19_12 == And(inst, 12..19)
    IN  SextField(Or(Or(imm20, imm10_1), Or(imm11, imm19_12)), 11)

\* int64(int32(inst & 0xFFFFF000))
immU(inst) == SignExtend(And(inst, 12..31), 32)

\* setReg as it would be without the test of rd.
setRegAny(vm, rd, val) == [vm EXCEPT !.Registers[rd] = val]

\* if rd != 0 { vm.Registers[rd] = uint64(val) }
setReg(vm, rd, val) ==
    IF rd # 0 THEN [vm EXCEPT !.Registers[rd] = val] ELSE vm

\* vm.Pc += 4, the last statement of execute.
advance(vm) ==
    IF vm.goPanic THEN vm ELSE [vm EXCEPT !.Pc = Add64(@, NatBits(4))]

\* vm.Memory[addr] and vm.Memory[addr:] are in bounds.
indexInBounds(addr) == LtU(addr, NatBits(RISBEE_STACK_SIZE))
sliceInBounds(addr) == LeU(addr, NatBits(RISBEE_STACK_SIZE))

\* execLOAD as it would be if LH converted through uint16 only.
execLOADHalfUnsigned(vm, inst, rd, rs1) ==
    LET functionCode3 == Bits(inst, 12, 3)
        addr == Add64(vm.Registers[rs1], immI(inst))
        a == ToNat(addr)
        n == RISBEE_STACK_SIZE - a
        M == vm.Memory
    IN  CASE functionCode3 = RISBEE_FC3_LB ->
                IF indexInBounds(addr)
                THEN setReg(vm, rd, SignExtend(NatBits(MemAt(M, a)), 8))
                ELSE GoPanic(vm)
          [] functionCode3 = RISBEE_FC3_LHW ->
                IF sliceInBounds(addr)
                THEN setReg(vm, rd, uint16LittleEndian(M, a, n))
                ELSE GoPanic(vm)
          [] functionCode3 = RISBEE_FC3_LW ->
                IF sliceInBounds(addr)
                THEN setReg(vm, rd, SignExtend(uint32LittleEndian(M, a, n), 32))
                ELSE GoPanic(vm)
          [] functionCode3 = RISBEE_FC3_LDW ->
                IF sliceInBounds(addr)
                THEN setReg(vm, rd, uint64LittleEndian(M, a, n))
                ELSE GoPanic(vm)
          [] functionCode3 = RISBEE_FC3_LBU ->
                IF indexInBounds(addr)
                THEN setReg(vm, rd, NatBits(MemAt(M, a)))
                ELSE GoPanic(vm)
          [] functionCode3 = RISBEE_FC3_LHU ->
                IF sliceInBounds(addr)
                THEN setReg(vm, rd, uint16LittleEndian(M, a, n))
                ELSE GoPanic(vm)
          [] functionCode3 = RISBEE_FC3_LRES ->
                IF sliceInBounds(addr)
                THEN setReg(vm, rd, uint32LittleEndian(M, a, n))
                ELSE GoPanic(vm)
          [] OTHER ->
                setReg(panic(vm, "Invalid load instruction."), rd, Zero)

execLOAD(vm, inst, rd, rs1) ==
    LET functionCode3 == Bits(inst, 12, 3)
        addr == Add64(vm.Registers[rs1], immI(inst))
        a == ToNat(addr)
        n == RISBEE_STACK_SIZE - a
        M == vm.Memory
    IN  CASE functionCode3 = RISBEE_FC3_LB ->
                IF indexInBounds(addr)
                THEN setReg(vm, rd, SignExtend(NatBits(MemAt(M, a)), 8))
                ELSE GoPanic(vm)
          [] functionCode3 = RISBEE_FC3_LHW ->
                IF sliceInBounds(addr)
                THEN setReg(vm, rd, SignExtend(uint16LittleEndian(M, a, n), 16))
                ELSE GoPanic(vm)
          [] functionCode3 = RISBEE_FC3_LW ->
                IF sliceInBounds(addr)
                THEN setReg(vm, rd, SignExtend(uint32LittleEndian(M, a, n), 32))
                ELSE GoPanic(vm)
          [] functionCode3 = RISBEE_FC3_LDW ->
                IF sliceInBounds(addr)
                THEN setReg(vm, rd, uint64LittleEndian(M, a, n))
                ELSE GoPanic(vm)
          [] functionCode3 = RISBEE_FC3_LBU ->
                IF indexInBounds(addr)
                THEN setReg(vm, rd, NatBits(MemAt(M, a)))
                ELSE GoPanic(vm)
          [] functionCode3 = RISBEE_FC3_LHU ->
                IF sliceInBounds(addr)
                THEN setReg(vm, rd, uint16LittleEndian(M, a, n))
                ELSE GoPanic(vm)
          [] functionCode3 = RISBEE_FC3_LRES ->
                IF sliceInBounds(addr)
                THEN setReg(vm, rd, uint32LittleEndian(M, a, n))
                ELSE GoPanic(vm)
          [] OTHER ->
                setReg(panic(vm, "Invalid load instruction."), rd, Zero)

execSTORE(vm, inst, rs1, rs2) ==
    LET functionCode3 == Bits(inst, 12, 3)
        addr == Add64(vm.Registers[rs1], immS(inst))
        val == vm.Registers[rs2]
        a == ToNat(addr)
        n == RISBEE_STACK_SIZE - a
        M == vm.Memory
    IN  CASE functionCode3 = RISBEE_FC3_SB ->
                IF indexInBounds(addr)
                THEN [vm EXCEPT !.Memory = MemSet(M, a, byte(val))]
                ELSE GoPanic(vm)
          [] functionCode3 = RISBEE_FC3_SHW ->
                IF sliceInBounds(addr)
                THEN [vm EXCEPT !.Memory = putUint16(M, a, n, Trunc(val, 16))]
                ELSE GoPanic(vm)
          [] functionCode3 = RISBEE_FC3_SW ->
                IF sliceInBounds(addr)
                THEN [vm EXCEPT !.Memory = putUint32(M, a, n, Trunc(val, 32))]
                ELSE GoPanic(vm)
          [] functionCode3 = RISBEE_FC3_SDW ->
                IF sliceInBounds(addr)
                THEN [vm EXCEPT !.Memory = putUint64(M, a, n, val)]
                ELSE GoPanic(vm)
          [] OTHER -> panic(vm, "Invalid store instruction.")

Bool64(b) == IF b THEN NatBits(1) ELSE Zero

execIMM(vm, inst, rd, rs1) ==
    LET functionCode3 == Bits(inst, 12, 3)
        immediate == immI(inst)
        shiftAmount == NatBits(Bits(inst, 20, 6))
        val == vm.Registers[rs1]
    IN  CASE functionCode3 = RISBEE_FC3_ADDI ->
                setReg(vm, rd, Add64(val, immediate))
          [] functionCode3 = RISBEE_FC3_SLLI ->
                setReg(vm, rd, shiftLeftInt64(val, shiftAmount))
          [] functionCode3 = RISBEE_FC3_SLTI ->
                setReg(vm, rd, Bool64(LtS(val, immediate, 64)))
          [] functionCode3 = RISBEE_FC3_SLTIU ->
                setReg(vm, rd, Bool64(LtU(val, immediate)))
          [] functionCode3 = RISBEE_FC3_XORI ->
                setReg(vm, rd, Xor(val, immediate))
          [] functionCode3 = RISBEE_FC3_SRLI ->
                LET functionCode6 == Bits(inst, 26, 6)
                IN  CASE functionCode6 \div 16 = 0 ->
                            setReg(vm, rd, shiftRightInt64(val, shiftAmount))
                      [] functionCode6 \div 16 = 1 ->
                            setReg(vm, rd,
                                   arithShiftRightInt64(val, shiftAmount))
                      [] OTHER ->
                            setReg(panic(vm,
                                     "Invalid immediate shift instruction."),
                                   rd, val)
          [] functionCode3 = RISBEE_FC3_ORI ->
                setReg(vm, rd, Or(val, immediate))
          [] functionCode3 = RISBEE_FC3_ANDI ->
                setReg(vm, rd, And(val, immediate))
          [] OTHER ->
                setReg(panic(vm, "Invalid immediate instruction."), rd, val)

execIALU(vm, inst, rd, rs1, rs2) ==
    LET functionCode3 == Bits(inst, 12, 3)
        immediate == immI(inst)
        val == vm.Registers[rs1]
    IN  CASE functionCode3 = RISBEE_FC3_SLLIW ->
                setReg(vm, rd, Add64(val, immediate))
          [] functionCode3 = RISBEE_FC3_SRLIW ->
                setReg(vm, rd, shiftLeftInt64(val, immediate))
          [] functionCode3 = RISBEE_FC3_SRAIW ->
                LET shiftAmount == NatBits(rs2)
                    functionCode7 == Bits(inst, 25, 7)
                IN  CASE functionCode7 \div 32 = 0 ->
                            setReg(vm, rd, shiftRightInt64(val, shiftAmount))
                      [] functionCode7 \div 32 = 1 ->
                            setReg(vm, rd,
                                   arithShiftRightInt64(val, shiftAmount))
                      [] OTHER ->
                            setReg(panic(vm,
                                     "Invalid immediate shift instruction."),
                                   rd, val)
          [] functionCode3 = RISBEE_FC3_SLLI64 ->
                setReg(vm, rd, shiftLeftInt64(val, And(immediate, 0..5)))
          [] functionCode3 = RISBEE_FC3_SRLI64 ->
                setReg(vm, rd, shiftRightInt64(val, And(immediate, 0..5)))
          [] functionCode3 = RISBEE_FC3_SRAI64 ->
                setReg(vm, rd, arithShiftRightInt64(val, And(immediate, 0..5)))
          [] OTHER ->
                setReg(panic(vm, "Invalid immediate instruction."), rd, val)

INT64_MIN == {63}
INT32_MIN == {31}

\* execRT64 with the divisions of Go taken unguarded: a zero divisor is a
\* run-time panic.
execRT64Unguarded(vm, inst, rd, rs1, rs2) ==
    LET functionCode3 == Bits(inst, 12, 3)
        functionCode7 == Bits(inst, 25, 7)
        key == functionCode7 * 8 + functionCode3
        val1 == vm.Registers[rs1]
        val2 == vm.Registers[rs2]
    IN  CASE key = RISBEE_OPINST_RT64_ADD ->
                setReg(vm, rd, Add64(val1, val2))
          [] key = RISBEE_OPINST_RT64_SUB ->
                setReg(vm, rd, Sub64(val1, val2))
          [] key = RISBEE_OPINST_RT64_SLL ->
                setReg(vm, rd, shiftLeftInt64(val1, And(val2, 0..4)))
          [] key = RISBEE_OPINST_RT64_SLT ->
                setReg(vm, rd, Bool64(LtS(val1, val2, 64)))
          [] key = RISBEE_OPINST_RT64_SLTU ->
                setReg(vm, rd, Bool64(LtU(val1, val2)))
          [] key = RISBEE_OPINST_RT64_XOR ->
                setReg(vm, rd, Xor(val1, val2))
          [] key = RISBEE_OPINST_RT64_SRL ->
                setReg(vm, rd, shiftRightInt64(val1, And(val2, 0..4)))
          [] key = RISBEE_OPINST_RT64_SRA ->
                setReg(vm, rd, arithShiftRightInt64(val1, And(val2, 0..4)))
          [] key = RISBEE_OPINST_RT64_OR ->
                setReg(vm, rd, Or(val1, val2))
          [] key = RISBEE_OPINST_RT64_AND ->
                setReg(vm, rd, And(val1, val2))
          [] key = RISBEE_OPINST_RT64_MUL ->
                setReg(vm, rd, MulW(val1, val2, 64))
          [] key = RISBEE_OPINST_RT64_MULH ->
                setReg(vm, rd,
                       shiftRightInt128(MulW(val1, val2, 64), NatBits(64)))
          [] key = RISBEE_OPINST_RT64_MULHSU ->
                setReg(vm, rd,
                       shiftRightInt128(MulW(val1, val2, 64), NatBits(64)))
          [] key = RISBEE_OPINST_RT64_MULHU ->
                setReg(vm, rd,
                       shiftRightInt128(MulW(val1, val2, 64), NatBits(64)))
          [] key = RISBEE_OPINST_RT64_DIV ->
                IF val2 = Zero THEN GoPanic(vm)
                ELSE setReg(vm, rd, DivS(val1, val2, 64))
          [] key = RISBEE_OPINST_RT64_DIVU ->
                IF val2 = Zero THEN GoPanic(vm)
                ELSE setReg(vm, rd, DivU(val1, val2, 64))
          [] key = RISBEE_OPINST_RT64_REM ->
                IF val2 = Zero THEN GoPanic(vm)
                ELSE setReg(vm, rd, RemS(val1, val2, 64))
          [] key = RISBEE_OPINST_RT64_REMU ->
                IF val2 = Zero THEN GoPanic(vm)
                ELSE setReg(vm, rd, RemU(val1, val2, 64))
          [] OTHER ->
                setReg(panic(vm, "Invalid arith instruction."), rd, Zero)

execRT64(vm, inst, rd, rs1, rs2) ==
    LET functionCode3 == Bits(inst, 12, 3)
        functionCode7 == Bits(inst, 25, 7)
        key == functionCode7 * 8 + functionCode3
        val1 == vm.Registers[rs1]
        val2 == vm.Registers[rs2]
    IN  CASE key = RISBEE_OPINST_RT64_ADD ->
                setReg(vm, rd, Add64(val1, val2))
          [] key = RISBEE_OPINST_RT64_SUB ->
                setReg(vm, rd, Sub64(val1, val2))
          [] key = RISBEE_OPINST_RT64_SLL ->
                setReg(vm, rd, shiftLeftInt64(val1, And(val2, 0..4)))
          [] key = RISBEE_OPINST_RT64_SLT ->
                setReg(vm, rd, Bool64(LtS(val1, val2, 64)))
          [] key = RISBEE_OPINST_RT64_SLTU ->
                setReg(vm, rd, Bool64(LtU(val1, val2)))
          [] key = RISBEE_OPINST_RT64_XOR ->
                setReg(vm, rd, Xor(val1, val2))
          [] key = RISBEE_OPINST_RT64_SRL ->
                setReg(vm, rd, shiftRightInt64(val1, And(val2, 0..4)))
          [] key = RISBEE_OPINST_RT64_SRA ->
                setReg(vm, rd, arithShiftRightInt64(val1, And(val2, 0..4)))
          [] key = RISBEE_OPINST_RT64_OR ->
                setReg(vm, rd, Or(val1, val2))
          [] key = RISBEE_OPINST_RT64_AND ->
                setReg(vm, rd, And(val1, val2))
          [] key = RISBEE_OPINST_RT64_MUL ->
                setReg(vm, rd, MulW(val1, val2, 64))
          [] key = RISBEE_OPINST_RT64_MULH ->
                setReg(vm, rd,
                       shiftRightInt128(MulW(val1, val2, 64), NatBits(64)))
          [] key = RISBEE_OPINST_RT64_MULHSU ->
                setReg(vm, rd,
                       shiftRightInt128(MulW(val1, val2, 64), NatBits(64)))
          [] key = RISBEE_OPINST_RT64_MULHU ->
                setReg(vm, rd,
                       shiftRightInt128(MulW(val1, val2, 64), NatBits(64)))
          [] key = RISBEE_OPINST_RT64_DIV ->
                setReg(vm, rd,
                       IF val1 = INT64_MIN /\ val2 = MinusOne THEN INT64_MIN
                       ELSE IF val2 = Zero THEN MinusOne
                       ELSE DivS(val1, val2, 64))
          [] key = RISBEE_OPINST_RT64_DIVU ->
                setReg(vm, rd,
                       IF val2 = Zero THEN MinusOne
                       ELSE DivU(val1, val2, 64))
          [] key = RISBEE_OPINST_RT64_REM ->
                setReg(vm, rd,
                       IF val1 = INT64_MIN /\ val2 = MinusOne THEN Zero
                       ELSE IF val2 = Zero THEN val1
                       ELSE RemS(val1, val2, 64))
          [] key = RISBEE_OPINST_RT64_REMU ->
                setReg(vm, rd,
                       IF val2 = Zero THEN val1
                       ELSE RemU(val1, val2, 64))
          [] OTHER ->
                setReg(panic(vm, "Invalid arith instruction."), rd, Zero)

execRT32(vm, inst, rd, rs1, rs2) ==
    LET functionCode3 == Bits(inst, 12, 3)
        functionCode7 == Bits(inst, 25, 7)
        key == functionCode7 * 8 + functionCode3
        val1 == vm.Registers[rs1]
        val2 == vm.Registers[rs2]
        dividend == Trunc(val1, 32)
        divisor == Trunc(val2, 32)
    IN  CASE key = RISBEE_OPINST_RT32_ADDW ->
                setReg(vm, rd, Add64(val1, val2))
          [] key = RISBEE_OPINST_RT32_SUBW ->
                setReg(vm, rd, Sub64(val1, val2))
          [] key = RISBEE_OPINST_RT32_SLLW ->
                setReg(vm, rd, shiftLeftInt64(val1, And(val2, 0..4)))
          [] key = RISBEE_OPINST_RT32_SRLW ->
                setReg(vm, rd, shiftRightInt64(val1, And(val2, 0..4)))
          [] key = RISBEE_OPINST_RT32_SRAW ->
                setReg(vm, rd, arithShiftRightInt64(val1, And(val2, 0..4)))
          [] key = RISBEE_OPINST_RT32_MULW ->
                setReg(vm, rd, SignExtend(MulW(val1, val2, 32), 32))
          [] key = RISBEE_OPINST_RT32_DIVW ->
                setReg(vm, rd,
                       IF dividend = INT32_MIN /\ divisor = W32
                       THEN SignExtend(INT32_MIN, 32)
                       ELSE IF divisor = Zero THEN MinusOne
                       ELSE SignExtend(DivS(dividend, divisor, 32), 32))
          [] key = RISBEE_OPINST_RT32_DIVUW ->
                setReg(vm, rd,
                       IF divisor = Zero THEN MinusOne
                       ELSE DivU(dividend, divisor, 32))
          [] key = RISBEE_OPINST_RT32_REMW ->
                setReg(vm, rd,
                       IF dividend = INT32_MIN /\ divisor = W32 THEN Zero
                       ELSE IF divisor = Zero THEN SignExtend(dividend, 32)
                       ELSE SignExtend(RemS(dividend, divisor, 32), 32))
          [] key = RISBEE_OPINST_RT32_REMUW ->
                setReg(vm, rd,
                       IF divisor = Zero THEN dividend
                       ELSE RemU(dividend, divisor, 32))
          [] OTHER ->
                setReg(panic(vm, "Invalid store doubleword instruction."),
                       rd, Zero)

execLUI(vm, inst, rd) == setReg(vm, rd, immU(inst))

execAUIPC(vm, inst, rd) == setReg(vm, rd, Add64(vm.Pc, immU(inst)))

\* Sets vm.Pc and returns: no vm.Pc += 4 follows.
execJAL(vm, inst, rd) ==
    LET linked == setReg(vm, rd, Add64(vm.Pc, NatBits(4)))
    IN  [linked EXCEPT !.Pc = Add64(vm.Pc, immJ(inst))]

\* jalrTarget as it would be without the mask.
jalrTargetUnmasked(base, immediate) == Add64(base, immediate)

\* uint64(int64(vm.Registers[rs1] + uint64(immediate)) & -2)
jalrTarget(base, immediate) == And(Add64(base, immediate), 1..63)

\* execJALR as it would be if rd were written before the target is read
\* from rs1.
execJALRLinkFirst(vm, inst, rd, rs1) ==
    LET pc == Add64(vm.Pc, NatBits(4))
        linked == setReg(vm, rd, pc)
    IN  [linked EXCEPT
            !.Pc = jalrTarget(linked.Registers[rs1], immI(inst))]

\* Sets vm.Pc and returns: no vm.Pc += 4 follows.
execJALR(vm, inst, rd, rs1) ==
    LET pc == Add64(vm.Pc, NatBits(4))
        jumped == [vm EXCEPT !.Pc = jalrTarget(vm.Registers[rs1], immI(inst))]
    IN  setReg(jumped, rd, pc)

\* execBRANCH as it would be if a taken branch did not return before
\* vm.Pc += 4.
execBRANCHFallsThrough(vm, inst, rs1, rs2) ==
    LET functionCode3 == Bits(inst, 12, 3)
        immediate == immB(inst)
        val1 == vm.Registers[rs1]
        val2 == vm.Registers[rs2]
        known == {RISBEE_FC3_BEQ, RISBEE_FC3_BNE, RISBEE_FC3_BLT,
                  RISBEE_FC3_BGE, RISBEE_FC3_BLTU, RISBEE_FC3_BGEU}
        condition ==
            CASE functionCode3 = RISBEE_FC3_BEQ -> val1 = val2
              [] functionCode3 = RISBEE_FC3_BNE -> val1 # val2
              [] functionCode3 = RISBEE_FC3_BLT -> LtS(val1, val2, 64)
              [] functionCode3 = RISBEE_FC3_BGE -> ~LtS(val1, val2, 64)
              [] functionCode3 = RISBEE_FC3_BLTU -> LtU(val1, val2)
              [] functionCode3 = RISBEE_FC3_BGEU -> ~LtU(val1, val2)
              [] OTHER -> FALSE
        checked == IF functionCode3 \in known THEN vm
                   ELSE panic(vm, "Invalid branch instruction.")
    IN  IF condition
        THEN advance([checked EXCEPT !.Pc = Add64(vm.Pc, immediate)])
        ELSE advance(checked)

\* A taken branch sets vm.Pc and returns; otherwise vm.Pc += 4 follows.
execBRANCH(vm, inst, rs1, rs2) ==
    LET functionCode3 == Bits(inst, 12, 3)
        immediate == immB(inst)
        val1 == vm.Registers[rs1]
        val2 == vm.Registers[rs2]
        known == {RISBEE_FC3_BEQ, RISBEE_FC3_BNE, RISBEE_FC3_BLT,
                  RISBEE_FC3_BGE, RISBEE_FC3_BLTU, RISBEE_FC3_BGEU}
        condition ==
            CASE functionCode3 = RISBEE_FC3_BEQ -> val1 = val2
              [] functionCode3 = RISBEE_FC3_BNE -> val1 # val2
              [] functionCode3 = RISBEE_FC3_BLT -> LtS(val1, val2, 64)
              [] functionCode3 = RISBEE_FC3_BGE -> ~LtS(val1, val2, 64)
              [] functionCode3 = RISBEE_FC3_BLTU -> LtU(val1, val2)
              [] functionCode3 = RISBEE_FC3_BGEU -> ~LtU(val1, val2)
              [] OTHER -> FALSE
        checked == IF functionCode3 \in known THEN vm
                   ELSE panic(vm, "Invalid branch instruction.")
    IN  IF condition
        THEN [checked EXCEPT !.Pc = Add64(vm.Pc, immediate)]
        ELSE advance(checked)

\* execCALL as it would be if the code were read from a0, as the package
\* comment has it.
execCALLCodeFromA0(vm, inst) ==
    LET functionCode11 == Bits(inst, 20, 12)
    IN  CASE functionCode11 = 0 ->
                LET code == vm.Registers[10]
                    r == handleSyscall(vm, code)
                IN  [r.vm EXCEPT !.Registers[10] = r.ret]
          [] functionCode11 = 1 ->
                [vm EXCEPT !.ExitCode = MinusOne, !.Running = FALSE]
          [] OTHER -> panic(vm, "Invalid system instruction.")

\* execCALL as it would be if EBREAK went through vm.panic.
execCALLBreakPanics(vm, inst) ==
    LET functionCode11 == Bits(inst, 20, 12)
    IN  CASE functionCode11 = 0 ->
                LET code == vm.Registers[17]
                    r == handleSyscall(vm, code)
                IN  [r.vm EXCEPT !.Registers[10] = r.ret]
          [] OTHER -> panic(vm, "Invalid system instruction.")

execCALL(vm, inst) ==
    LET functionCode11 == Bits(inst, 20, 12)
    IN  CASE functionCode11 = 0 ->
                LET code == vm.Registers[17]
                    r == handleSyscall(vm, code)
                IN  [r.vm EXCEPT !.Registers[10] = r.ret]
          [] functionCode11 = 1 ->
                [vm EXCEPT !.ExitCode = MinusOne, !.Running = FALSE]
          [] OTHER -> panic(vm, "Invalid system instruction.")

execute(vm, inst) ==
    LET opcode == Bits(inst, 0, 7)
        rd == Bits(inst, 7, 5)
        rs1 == Bits(inst, 15, 5)
        rs2 == Bits(inst, 20, 5)
    IN  CASE opcode = RISBEE_OPINST_LOAD ->
                advance(execLOAD(vm, inst, rd, rs1))
          [] opcode = RISBEE_OPINST_STORE ->
                advance(execSTORE(vm, inst, rs1, rs2))
          [] opcode = RISBEE_OPINST_IMM ->
                advance(execIMM(vm, inst, rd, rs1))
          [] opcode = RISBEE_OPINST_IALU ->
                advance(execIALU(vm, inst, rd, rs1, rs2))
          [] opcode = RISBEE_OPINST_RT64 ->
                advance(execRT64(vm, inst, rd, rs1, rs2))
          [] opcode = RISBEE_OPINST_RT32 ->
                advance(execRT32(vm, inst, rd, rs1, rs2))
          [] opcode = RISBEE_OPINST_LUI ->
                advance(execLUI(vm, inst, rd))
          [] opcode = RISBEE_OPINST_AUIPC ->
                advance(execAUIPC(vm, inst, rd))
          [] opcode = RISBEE_OPINST_JAL -> execJAL(vm, inst, rd)
          [] opcode = RISBEE_OPINST_JALR -> execJALR(vm, inst, rd, rs1)
          [] opcode = RISBEE_OPINST_BRANCH -> execBRANCH(vm, inst, rs1, rs2)
          [] opcode = RISBEE_OPINST_FENCE -> advance(vm)
          [] opcode = RISBEE_OPINST_CALL -> advance(execCALL(vm, inst))
          [] OTHER -> advance(panic(vm, "Invalid opcode instruction."))

(***************************************************************************)
(* Inputs: instruction words, program images, handlers.                    *)
(***************************************************************************)
EncR(opcode, rd, f3, rs1, rs2, f7) ==
    Or(Or(NatBits(opcode), Shl(NatBits(rd), 7)),
       Or(Or(Shl(NatBits(f3), 12), Shl(NatBits(rs1), 15)),
          Or(Shl(NatBits(rs2), 20), Shl(NatBits(f7), 25))))

EncI(opcode, rd, f3, rs1, imm) ==
    Or(Or(NatBits(opcode), Shl(NatBits(rd), 7)),
       Or(Or(Shl(NatBits(f3), 12), Shl(NatBits(rs1), 15)),
          Shl(Trunc(Int64Of(imm), 12), 20)))

EncS(opcode, f3, rs1, rs2, imm) ==
    LET i == Trunc(Int64Of(imm), 12)
    IN  Or(Or(NatBits(opcode), Shl(And(i, 0..4), 7)),
           Or(Or(Shl(NatBits(f3), 12), Shl(NatBits(rs1), 15)),
              Or(Shl(NatBits(rs2), 20), Shl(And(i, 5..11), 20))))

EncB(f3, rs1, rs2, imm) ==
    LET i == Trunc(Int64Of(imm), 13)
        scattered == {IF b = 12 THEN 31
                      ELSE IF b = 11 THEN 7
                      ELSE IF b >= 5 THEN b + 20
                      ELSE b + 7 : b \in i \ {0}}
    IN  Or(Or(NatBits(RISBEE_OPINST_BRANCH), scattered),
           Or(Shl(NatBits(f3), 12),
              Or(Shl(NatBits(rs1), 15), Shl(NatBits(rs2), 20))))

EncU(opcode, rd, imm20) ==
    Or(Or(NatBits(opcode), Shl(NatBits(rd), 7)), Shl(NatBits(imm20), 12))

EncJ(rd, imm) ==
    LET i == Trunc(Int64Of(imm), 21)
        scattered == {IF b = 20 THEN 31
                      ELSE IF b >= 12 THEN b
                      ELSE IF b = 11 THEN 20
                      ELSE b + 20 : b \in i \ {0}}
    IN  Or(Or(NatBits(RISBEE_OPINST_JAL), Shl(NatBits(rd), 7)), scattered)

\* Register names of the calling convention.
sp == 2
a0 == 10
a7 == 17

LI(rd, imm) == EncI(RISBEE_OPINST_IMM, rd, RISBEE_FC3_ADDI, 0, imm)
ECALL == EncI(RISBEE_OPINST_CALL, 0, 0, 0, 0)
EBREAK == EncI(RISBEE_OPINST_CALL, 0, 0, 0, 1)

\* The little-endian image of a sequence of instruction words.
Image(words) ==
    LET size == 4 * Len(words)
        b(i) == byte(Shr(words[(i \div 4) + 1], 8 * (i % 4)))
    IN  [size |-> size,
         nz |-> [i \in {j \in 0..(size - 1) : b(j) # 0} |-> b(i)]]

Programs ==
    { <<LI(a0, 42), LI(a7, 0), ECALL>>,                \* exit(42)
      <<W32>>,                                          \* 0xFFFFFFFF
      <<LI(a7, 1), ECALL, LI(5, 1)>>,                  \* syscall 1
      <<EncJ(0, 6)>>,                                   \* JAL x0, +6
      <<EncJ(1, 8), W32, LI(a0, 7), EBREAK>>,           \* JAL ra, +8
      <<EncI(RISBEE_OPINST_JALR, 1, 0, sp, -1)>>,       \* JALR ra, -1(sp)
      <<EncI(RISBEE_OPINST_JALR, 0, 0, 0, 7)>>,         \* JALR x0, 7(x0)
      <<EncB(RISBEE_FC3_BEQ, 0, 0, 10)>>,               \* BEQ x0, x0, +10
      <<EncB(RISBEE_FC3_BNE, 0, 0, 10),                 \* BNE x0, x0, +10
        EncI(RISBEE_OPINST_FENCE, 0, 0, 0, 0),
        EncI(RISBEE_OPINST_CALL, 0, 0, 0, 2)>>,         \* SYSTEM funct12 = 2
      <<EncI(RISBEE_OPINST_LOAD, 5, RISBEE_FC3_LHW, sp, -1),
        EncS(RISBEE_OPINST_STORE, RISBEE_FC3_SW, sp, sp, -2),
        EncI(RISBEE_OPINST_LOAD, 5, RISBEE_FC3_LB, sp, 0)>>,
      <<EncI(RISBEE_OPINST_LOAD, 0, RISBEE_FC3_LW, sp, -4096),
        EncI(RISBEE_OPINST_IMM, 0, RISBEE_FC3_ADDI, sp, 5),
        EncI(RISBEE_OPINST_IALU, 0, RISBEE_FC3_SLLIW, sp, 1),
        EncR(RISBEE_OPINST_RT64, 0, 0, sp, sp, 0)>>,
      <<EncR(RISBEE_OPINST_RT32, 0, 0, sp, sp, 0),
        EncU(RISBEE_OPINST_LUI, 0, 74565),
        EncU(RISBEE_OPINST_AUIPC, 0, 1),
        EncI(RISBEE_OPINST_LOAD, 5, 7, sp, 0)>> }       \* LOAD funct3 = 7

\* The byte slices passed to LoadFromBytes: program images, the empty
\* slice, the longest slice that fits (its last byte is 1, the others 0) and
\* a slice one byte longer (all 0).
Datas ==
    {Image(p) : p \in Programs}
        \cup {[size |-> 0, nz |-> <<>>],
              [size |-> RISBEE_STACK_SIZE - loadOffset,
               nz |-> [i \in {RISBEE_STACK_SIZE - loadOffset - 1} |-> 1]],
              [size |-> RISBEE_STACK_SIZE - loadOffset + 1, nz |-> <<>>]}

\* Syscall codes the host registers handlers for, and the handlers.
SyscallCodes == {NatBits(0), NatBits(1)}
Handlers == {[ret |-> NatBits(7), stop |-> FALSE],
             [ret |-> NatBits(9), stop |-> TRUE]}

(***************************************************************************)
(* The state machine: the host calls the methods of a VM made by           *)
(* &RisbeeVm{}; Run is a loop of steps, one instruction each.              *)
(***************************************************************************)
NoLast == [fetched |-> FALSE, pc |-> Zero, inst |-> Zero,
           regs |-> [r \in 0..31 |-> Zero], exitCode |-> Zero]

NoLoad == [called |-> FALSE, Data |-> [size |-> 0, nz |-> <<>>],
           twice |-> FALSE]

NoStr == [called |-> FALSE, Pointer |-> Zero, bytes |-> <<>>]

Init ==
    /\ Memory = <<>>
    /\ Registers = [r \in 0..31 |-> Zero]
    /\ Pc = Zero
    /\ ExitCode = Zero
    /\ Running = FALSE
    /\ SysCalls = <<>>
    /\ SysCallsIsNil = TRUE
    /\ ExitCallback = FALSE
    /\ PanicCallback = FALSE
    /\ ctl = "idle"
    /\ events = <<>>
    /\ panics = 0
    /\ last = NoLast
    /\ startPc = Zero
    /\ loadResult = FALSE
    /\ loaded = NoLoad
    /\ str = NoStr
    /\ steps = 0
    /\ calls = 0

\* The VM becomes vm; control goes to c unless a Go panic unwound the call.
Commit(vm, c) ==
    /\ Memory' = vm.Memory
    /\ Registers' = vm.Registers
    /\ Pc' = vm.Pc
    /\ ExitCode' = vm.ExitCode
    /\ Running' = vm.Running
    /\ SysCalls' = vm.SysCalls
    /\ SysCallsIsNil' = vm.SysCallsIsNil
    /\ ExitCallback' = vm.ExitCallback
    /\ PanicCallback' = vm.PanicCallback
    /\ events' = vm.events
    /\ panics' = vm.panics
    /\ ctl' = IF vm.goPanic THEN "aborted" ELSE c

CallInitialize(exitCallback, panicCallback) ==
    /\ ctl = "idle"
    /\ calls < MaxCalls
    /\ Commit(Initialize(VM, exitCallback, panicCallback), "idle")
    /\ calls' = calls + 1
    /\ last' = NoLast
    /\ loaded' = NoLoad
    /\ UNCHANGED <<startPc, loadResult, str, steps>>

CallLoadFromBytes(Data) ==
    /\ ctl = "idle"
    /\ calls < MaxCalls
    /\ LET r == LoadFromBytes(VM, Data)
       IN  Commit(r[1], "idle") /\ loadResult' = r[2]
    /\ calls' = calls + 1
    /\ last' = NoLast
    /\ loaded' = [called |-> TRUE, Data |-> Data,
                   twice |-> loaded.called /\ loaded.Data = Data]
    /\ UNCHANGED <<startPc, str, steps>>

CallSetSystemCall(Address, Callback) ==
    /\ ctl = "idle"
    /\ Commit(SetSystemCall(VM, Address, Callback), "idle")
    /\ last' = NoLast
    /\ loaded' = NoLoad
    /\ UNCHANGED <<startPc, loadResult, str, steps, calls>>

\* Run as it would be if it restarted the program at the load address.
RunBeginResetsPc ==
    /\ ctl = "idle"
    /\ calls < MaxCalls
    /\ steps < MaxSteps
    /\ Commit([VM EXCEPT !.Running = TRUE, !.Pc = NatBits(loadOffset)], "loop")
    /\ startPc' = NatBits(loadOffset)
    /\ last' = NoLast
    /\ loaded' = NoLoad
    /\ calls' = calls + 1
    /\ UNCHANGED <<loadResult, str, steps>>

\* Run: vm.Running = true, then the loop test.
RunBegin ==
    /\ ctl = "idle"
    /\ calls < MaxCalls
    /\ steps < MaxSteps
    /\ Commit([VM EXCEPT !.Running = TRUE], "loop")
    /\ startPc' = Pc
    /\ last' = NoLast
    /\ loaded' = NoLoad
    /\ calls' = calls + 1
    /\ UNCHANGED <<loadResult, str, steps>>

\* One iteration of the loop: fetch, execute.
RunStep ==
    /\ ctl = "loop"
    /\ Running
    /\ steps < MaxSteps
    /\ IF fetchInBounds(VM)
       THEN /\ Commit(execute(VM, fetch(VM)), "loop")
            /\ last' = [fetched |-> TRUE, pc |-> Pc, inst |-> fetch(VM),
                        regs |-> Registers, exitCode |-> ExitCode]
       ELSE /\ Commit(GoPanic(VM), "loop")
            /\ last' = [NoLast EXCEPT !.pc = Pc]
    /\ steps' = steps + 1
    /\ UNCHANGED <<startPc, loadResult, loaded, str, calls>>

\* The loop test fails: Run returns.
RunReturn ==
    /\ ctl = "loop"
    /\ ~Running
    /\ ctl' = "idle"
    /\ UNCHANGED <<Memory, Registers, Pc, ExitCode, Running, SysCalls,
                   SysCallsIsNil, ExitCallback, PanicCallback, events, panics,
                   last, startPc, loadResult, loaded, str, steps, calls>>

Next ==
    \/ \E e \in BOOLEAN, p \in BOOLEAN : CallInitialize(e, p)
    \/ \E d \in Datas : CallLoadFromBytes(d)
    \/ \E c \in SyscallCodes, h \in Handlers : CallSetSystemCall(c, h)
    \/ RunBegin
    \/ RunStep
    \/ RunReturn

Spec == Init /\ [][Next]_vars

(***************************************************************************)
(* Single instructions on chosen operands.  The host makes a VM, calls     *)
(* Initialize and LoadFromBytes with a short program, writes operands to   *)
(* r5 and r6 (Registers is an exported field) and calls Run.               *)
(***************************************************************************)
\* Operand values: small shift amounts, the extremes of int32 and int64,
\* and a pattern with bits on both sides of bit 31.
Operands ==
    {Zero, NatBits(1), NatBits(31), NatBits(32), NatBits(63),
     0..30, {31}, {32}, INT64_MIN, MinusOne, {0, 3, 31, 32, 40, 63}}

\* The R-type word of opcode and key = (funct7 << 3) | funct3, rd = r7,
\* rs1 = r5, rs2 = r6.
EncKey(opcode, key) == EncR(opcode, 7, key % 8, 5, 6, key \div 8)

ShiftPrograms ==
    {<<EncKey(RISBEE_OPINST_RT64, k)>> :
        k \in {RISBEE_OPINST_RT64_SLL, RISBEE_OPINST_RT64_SRL,
               RISBEE_OPINST_RT64_SRA}}

MulDivPrograms ==
    {<<EncKey(RISBEE_OPINST_RT64, k)>> :
        k \in {RISBEE_OPINST_RT64_MULH, RISBEE_OPINST_RT64_MULHSU,
               RISBEE_OPINST_RT64_MULHU, RISBEE_OPINST_RT64_DIV,
               RISBEE_OPINST_RT64_DIVU, RISBEE_OPINST_RT64_REM,
               RISBEE_OPINST_RT64_REMU}}

WordPrograms ==
    {<<EncKey(RISBEE_OPINST_RT32, k)>> :
        k \in {RISBEE_OPINST_RT32_ADDW, RISBEE_OPINST_RT32_SUBW,
               RISBEE_OPINST_RT32_SLLW, RISBEE_OPINST_RT32_SRLW,
               RISBEE_OPINST_RT32_SRAW, RISBEE_OPINST_RT32_MULW,
               RISBEE_OPINST_RT32_DIVW, RISBEE_OPINST_RT32_DIVUW,
               RISBEE_OPINST_RT32_REMW, RISBEE_OPINST_RT32_REMUW}}

\* OP-IMM-32 words: ADDIW with immediates 1 and -1, SLLIW, SRLIW and SRAIW
\* with shift amounts 1 and 31 (SRAIW has bit 30 set).
WordImmPrograms ==
    {<<EncI(RISBEE_OPINST_IALU, 7, 0, 5, i)>> : i \in {1, -1}}
        \cup {<<EncI(RISBEE_OPINST_IALU, 7, f, 5, n)>> :
                f \in {1, 5}, n \in {1, 31}}
        \cup {<<EncI(RISBEE_OPINST_IALU, 7, 5, 5, 1024 + n)>> : n \in {1, 31}}

\* SYSTEM words: EBREAK, EBREAK with rd and rs1 set, and funct12 values
\* other than 0 and 1.
SystemPrograms ==
    {<<EBREAK>>, <<EncI(RISBEE_OPINST_CALL, 7, 0, 5, 1)>>}
        \cup {<<EncI(RISBEE_OPINST_CALL, 0, 0, 0, f)>> : f \in {2, 3, 1024, -1}}

\* A store of r6 and the zero-extending load of the same width to r7 at the
\* same address: the last w bytes of the arena (off sp) and address 3.
StoreLoadPrograms ==
    {<<EncS(RISBEE_OPINST_STORE, RISBEE_FC3_SB, b, 6, i),
       EncI(RISBEE_OPINST_LOAD, 7, RISBEE_FC3_LBU, b, i)>> :
        b \in {sp}, i \in {-1}}
    \cup {<<EncS(RISBEE_OPINST_STORE, RISBEE_FC3_SHW, b, 6, i),
            EncI(RISBEE_OPINST_LOAD, 7, RISBEE_FC3_LHU, b, i)>> :
        b \in {sp}, i \in {-2}}
    \cup {<<EncS(RISBEE_OPINST_STORE, RISBEE_FC3_SW, b, 6, i),
            EncI(RISBEE_OPINST_LOAD, 7, RISBEE_FC3_LRES, b, i)>> :
        b \in {sp}, i \in {-4}}
    \cup {<<EncS(RISBEE_OPINST_STORE, RISBEE_FC3_SDW, b, 6, i),
            EncI(RISBEE_OPINST_LOAD, 7, RISBEE_FC3_LDW, b, i)>> :
        b \in {sp}, i \in {-8}}
    \cup {<<EncS(RISBEE_OPINST_STORE, f, 0, 6, 3),
            EncI(RISBEE_OPINST_LOAD, 7, g, 0, 3)>> :
        f \in {RISBEE_FC3_SB}, g \in {RISBEE_FC3_LBU}}
    \cup {<<EncS(RISBEE_OPINST_STORE, f, 0, 6, 3),
            EncI(RISBEE_OPINST_LOAD, 7, g, 0, 3)>> :
        f \in {RISBEE_FC3_SHW}, g \in {RISBEE_FC3_LHU}}
    \cup {<<EncS(RISBEE_OPINST_STORE, f, 0, 6, 3),
            EncI(RISBEE_OPINST_LOAD, 7, g, 0, 3)>> :
        f \in {RISBEE_FC3_SW}, g \in {RISBEE_FC3_LRES}}
    \cup {<<EncS(RISBEE_OPINST_STORE, f, 0, 6, 3),
            EncI(RISBEE_OPINST_LOAD, 7, g, 0, 3)>> :
        f \in {RISBEE_FC3_SDW}, g \in {RISBEE_FC3_LDW}}

\* JALR with rd = rs1 = r5 and with rd = r7, odd and even immediates.
JumpPrograms ==
    {<<EncI(RISBEE_OPINST_JALR, rd, 0, 5, i)>> : rd \in {5, 7}, i \in {7, -4}}

\* Words outside the supported encodings: OP-IMM-32 with funct3 2, 3, 4, 6
\* and 7 and with funct3 = 5 and funct7 = 64; SRLI/SRAI with inst[31:26] = 1,
\* 17 and 32; LOAD funct3 = 7; STORE funct3 = 4 and 7; BRANCH funct3 = 2 and
\* 3; OP and OP-32 keys outside their tables; an unknown primary opcode.
OtherPrograms ==
    {<<EncI(RISBEE_OPINST_IALU, 7, f, 5, 1)>> : f \in {2, 3, 4, 6, 7}}
        \cup {<<EncI(RISBEE_OPINST_IALU, 7, 5, 5, 64 * 32 + 1)>>}
        \cup {<<EncI(RISBEE_OPINST_IMM, 7, RISBEE_FC3_SRLI, 5, 64 * f + 1)>> :
                f \in {1, 17, 32}}
        \cup {<<EncI(RISBEE_OPINST_LOAD, 5, 7, 5, 0)>>}
        \cup {<<EncS(RISBEE_OPINST_STORE, f, 5, 6, 0)>> : f \in {4, 7}}
        \cup {<<EncB(f, 5, 6, 8)>> : f \in {2, 3}}
        \cup {<<EncKey(RISBEE_OPINST_RT64, k)>> : k \in {16, 257}}
        \cup {<<EncKey(RISBEE_OPINST_RT32, k)>> : k \in {2, 257}}
        \cup {<<W32>>}

\* The six branches on r5 and r6, forwards and backwards, and JAL with and
\* without a link register, to a multiple of 4 and to an odd multiple of 2.
BranchPrograms ==
    {<<EncB(f, 5, 6, i)>> :
        f \in {RISBEE_FC3_BEQ, RISBEE_FC3_BNE, RISBEE_FC3_BLT,
               RISBEE_FC3_BGE, RISBEE_FC3_BLTU, RISBEE_FC3_BGEU},
        i \in {12, -8}}
        \cup {<<EncJ(rd, i)>> : rd \in {0, 7}, i \in {8, -6}}

\* Operands of the branches: equal and unequal, of equal and of different
\* sign.
BranchOperands == {Zero, NatBits(1), MinusOne, INT64_MIN}

\* SD of r6 sixteen bytes below the end of the arena, then each LOAD of
\* the bytes stored, at the address of the store and 1 and 3 bytes above it.
LoadPrograms ==
    {<<EncS(RISBEE_OPINST_STORE, RISBEE_FC3_SDW, sp, 6, -16),
       EncI(RISBEE_OPINST_LOAD, 7, f, sp, k - 16)>> :
        f \in {RISBEE_FC3_LB, RISBEE_FC3_LHW, RISBEE_FC3_LW, RISBEE_FC3_LDW,
               RISBEE_FC3_LBU, RISBEE_FC3_LHU, RISBEE_FC3_LRES},
        k \in {0, 1, 3}}

\* Values whose bytes differ, with the top bit of a byte, a halfword and a
\* word set and clear.
LoadOperands ==
    {MinusOne, {0, 3, 31, 32, 40, 63}, {7, 8, 15, 23, 39},
     {0, 9, 18, 27, 36, 45, 54, 63}}

\* ECALL with the value of r5 in a7 and in a0: no handler is registered.
UnknownCallPrograms ==
    {<<EncI(RISBEE_OPINST_IMM, a7, RISBEE_FC3_ADDI, 5, 0),
       EncI(RISBEE_OPINST_IMM, a0, RISBEE_FC3_ADDI, 5, 0),
       ECALL>>}

\* The cases: a program, the values of r5 and r6, and whether the exit and
\* the panic callback are registered.
ExecCase(words, x, y, e, p) ==
    [words |-> words, x |-> x, y |-> y, e |-> e, p |-> p]

ExecCases ==
    {ExecCase(w, x, y, TRUE, TRUE) :
        w \in ShiftPrograms \cup MulDivPrograms \cup WordPrograms,
        x \in Operands, y \in Operands}
    \cup {ExecCase(w, x, Zero, TRUE, TRUE) :
            w \in WordImmPrograms, x \in Operands}
    \cup {ExecCase(w, Zero, y, TRUE, TRUE) :
            w \in StoreLoadPrograms, y \in Operands}
    \cup {ExecCase(w, Zero, Zero, e, p) :
            w \in SystemPrograms, e \in BOOLEAN, p \in BOOLEAN}
    \cup {ExecCase(w, x, Zero, TRUE, TRUE) :
            w \in JumpPrograms, x \in Operands}
    \cup {ExecCase(w, x, Zero, TRUE, p) :
            w \in UnknownCallPrograms, x \in {NatBits(1), MinusOne},
            p \in BOOLEAN}
    \cup {ExecCase(w, Zero, y, TRUE, TRUE) :
            w \in LoadPrograms, y \in LoadOperands}
    \cup {ExecCase(w, x, y, TRUE, TRUE) :
            w \in BranchPrograms, x \in BranchOperands,
            y \in BranchOperands}
    \cup {ExecCase(w, x, NatBits(1), TRUE, p) :
            w \in OtherPrograms, x \in {NatBits(31), MinusOne},
            p \in BOOLEAN}

\* The zero value of RisbeeVm.
ZeroVM ==
    [Memory |-> <<>>, Registers |-> [r \in 0..31 |-> Zero], Pc |-> Zero,
     ExitCode |-> Zero, Running |-> FALSE, SysCalls |-> <<>>,
     SysCallsIsNil |-> TRUE, ExitCallback |-> FALSE, PanicCallback |-> FALSE,
     events |-> <<>>, panics |-> 0, goPanic |-> FALSE]

\* The VM of a case, before Run.
ExecVM(c) ==
    LET made == Initialize(ZeroVM, c.e, c.p)
        ld == LoadFromBytes(made, Image(c.words))
    IN  [ld[1] EXCEPT !.Registers[5] = c.x, !.Registers[6] = c.y]

InitExec ==
    \E c \in ExecCases :
        LET vm == ExecVM(c)
        IN  /\ Memory = vm.Memory
            /\ Registers = vm.Registers
            /\ Pc = vm.Pc
            /\ ExitCode = vm.ExitCode
            /\ Running = vm.Running
            /\ SysCalls = vm.SysCalls
            /\ SysCallsIsNil = vm.SysCallsIsNil
            /\ ExitCallback = vm.ExitCallback
            /\ PanicCallback = vm.PanicCallback
            /\ ctl = "idle"
            /\ events = <<>>
            /\ panics = 0
            /\ last = NoLast
            /\ startPc = Zero
            /\ loadResult = TRUE
            /\ loaded = [called |-> TRUE, Data |-> Image(c.words),
                         twice |-> FALSE]
            /\ str = NoStr
            /\ steps = 0
            /\ calls = 2

NextExec ==
    \/ RunBegin
    \/ RunStep
    \/ RunReturn

SpecExec == InitExec /\ [][NextExec]_vars


(***************************************************************************)
(* Reading strings.  The host makes a VM, calls Initialize and             *)
(* LoadFromBytes, and then calls GetStringPointer with pointers into and   *)
(* around the image, at the end of the arena and beyond it.                *)
(***************************************************************************)
Pointers ==
    {NatBits(n) : n \in {0, 1, loadOffset - 1, loadOffset, loadOffset + 1,
                         loadOffset + 2, loadOffset + 3, loadOffset + 4,
                         RISBEE_STACK_SIZE - 2, RISBEE_STACK_SIZE - 1,
                         RISBEE_STACK_SIZE, RISBEE_STACK_SIZE + 1}}
        \cup {MinusOne}

CallGetStringPointer(Pointer) ==
    /\ ctl = "idle"
    /\ LET r == GetStringPointer(VM, Pointer)
       IN  /\ Commit(r.vm, "idle")
           /\ str' = [called |-> TRUE, Pointer |-> Pointer, bytes |-> r.str]
    /\ last' = NoLast
    /\ loaded' = NoLoad
    /\ UNCHANGED <<startPc, loadResult, steps, calls>>

InitStr ==
    \E d \in Datas :
        LET made == Initialize(ZeroVM, FALSE, FALSE)
            ld == LoadFromBytes(made, d)
            vm == ld[1]
        IN  /\ Memory = vm.Memory
            /\ Registers = vm.Registers
            /\ Pc = vm.Pc
            /\ ExitCode = vm.ExitCode
            /\ Running = vm.Running
            /\ SysCalls = vm.SysCalls
            /\ SysCallsIsNil = vm.SysCallsIsNil
            /\ ExitCallback = vm.ExitCallback
            /\ PanicCallback = vm.PanicCallback
            /\ ctl = "idle"
            /\ events = <<>>
            /\ panics = 0
            /\ last = NoLast
            /\ startPc = Zero
            /\ loadResult = ld[2]
            /\ loaded = [called |-> TRUE, Data |-> d, twice |-> FALSE]
            /\ str = NoStr
            /\ steps = 0
            /\ calls = 2

NextStr == \E p \in Pointers : CallGetStringPointer(p)

SpecStr == InitStr /\ [][NextStr]_vars

(***************************************************************************)
(* A VM that is used again: the host has made it with &RisbeeVm{},         *)
(* Initialize, SetSystemCall and LoadFromBytes, and goes on calling Run,   *)
(* Stop, Initialize and LoadFromBytes. calls counts the calls made from    *)
(* then on.                                                                *)
(***************************************************************************)
ReusePrograms ==
    { <<EncI(RISBEE_OPINST_IMM, sp, RISBEE_FC3_ADDI, sp, -16),  \* sp -= 16
        EncS(RISBEE_OPINST_STORE, RISBEE_FC3_SDW, sp, sp, 0),   \* SD sp, 0(sp)
        LI(5, 7),
        EBREAK>>,
      <<LI(a7, 1), ECALL, LI(5, 1)>>,                           \* syscall 1
      <<LI(a0, 42), LI(a7, 0), ECALL>> }                        \* exit(42)

\* The byte slices the host loads into the VM it uses again.
ReuseDatas ==
    {Image(p) : p \in ReusePrograms} \cup {[size |-> 0, nz |-> <<>>]}

\* The VM after Initialize, SetSystemCall(1, h) and LoadFromBytes(Image(p)).
ReuseVM(p, h) ==
    LET made == Initialize(ZeroVM, TRUE, TRUE)
        set == SetSystemCall(made, NatBits(1), h)
    IN  LoadFromBytes(set, Image(p))[1]

\* The host calls Stop between two calls of Run.
CallStop ==
    /\ ctl = "idle"
    /\ Commit(Stop(VM), "idle")
    /\ last' = NoLast
    /\ loaded' = NoLoad
    /\ UNCHANGED <<startPc, loadResult, str, steps, calls>>

InitReuse ==
    \E p \in ReusePrograms, h \in Handlers :
        LET vm == ReuseVM(p, h)
        IN  /\ Memory = vm.Memory
            /\ Registers = vm.Registers
            /\ Pc = vm.Pc
            /\ ExitCode = vm.ExitCode
            /\ Running = vm.Running
            /\ SysCalls = vm.SysCalls
            /\ SysCallsIsNil = vm.SysCallsIsNil
            /\ ExitCallback = vm.ExitCallback
            /\ PanicCallback = vm.PanicCallback
            /\ ctl = "idle"
            /\ events = <<>>
            /\ panics = 0
            /\ last = NoLast
            /\ startPc = Zero
            /\ loadResult = TRUE
            /\ loaded = [called |-> TRUE, Data |-> Image(p), twice |-> FALSE]
            /\ str = NoStr
            /\ steps = 0
            /\ calls = 0

NextReuse ==
    \/ \E e \in BOOLEAN, p \in BOOLEAN : CallInitialize(e, p)
    \/ \E d \in ReuseDatas : CallLoadFromBytes(d)
    \/ CallStop
    \/ RunBegin
    \/ RunStep
    \/ RunReturn

SpecReuse == InitReuse /\ [][NextReuse]_vars

(***************************************************************************)
(* Properties.                                                             *)
(***************************************************************************)
\* The fields of the instruction the last step executed.
LastOpcode == Bits(last.inst, 0, 7)
LastRd == Bits(last.inst, 7, 5)
LastFunct3 == Bits(last.inst, 12, 3)
LastRs1 == Bits(last.inst, 15, 5)
LastFunct12 == Bits(last.inst, 20, 12)

\* A step has executed an instruction and nothing happened since, except
\* possibly the return of Run.
Stepped == last.fetched /\ ctl \in {"loop", "idle"}

LastIsEcall ==
    Stepped /\ LastOpcode = RISBEE_OPINST_CALL /\ LastFunct12 = 0

PanicEvents == SelectSeq(events, LAMBDA e : e.cb = "panic")
ExitEvents == SelectSeq(events, LAMBDA e : e.cb = "exit")
SyscallEvents == SelectSeq(events, LAMBDA e : e.cb = "syscall")

KnownOpcodes ==
    {RISBEE_OPINST_LOAD, RISBEE_OPINST_STORE, RISBEE_OPINST_IMM,
     RISBEE_OPINST_IALU, RISBEE_OPINST_RT64, RISBEE_OPINST_RT32,
     RISBEE_OPINST_LUI, RISBEE_OPINST_AUIPC, RISBEE_OPINST_JAL,
     RISBEE_OPINST_JALR, RISBEE_OPINST_BRANCH, RISBEE_OPINST_FENCE,
     RISBEE_OPINST_CALL}

\* C1: after ECALL with r17 = 0, ExitCode is the value r10 had and Running
\* is false, whether or not an exit callback is registered.
C1_ExitHalts ==
    (LastIsEcall /\ last.regs[17] = Zero)
        => (ExitCode = last.regs[10] /\ ~Running)

\* C2: after an instruction with an unknown primary opcode, ExitCode is -1
\* and Running is false, with or without a panic callback, and a registered
\* panic callback has been invoked exactly once.
C2_UnknownOpcodePanics ==
    (Stepped /\ LastOpcode \notin KnownOpcodes)
        => /\ ExitCode = MinusOne
           /\ ~Running
           /\ events = IF PanicCallback
                       THEN <<[cb |-> "panic",
                               msg |-> "Invalid opcode instruction.",
                               arg |-> Zero, running |-> TRUE]>>
                       ELSE <<>>

\* Run has returned after executing 0xFFFFFFFF at the entry point, and the
\* panic callback was invoked.
C2_Witness ==
    /\ ctl = "idle" /\ last.fetched
    /\ last.inst = W32 /\ last.pc = NatBits(4096)
    /\ PanicCallback /\ Len(PanicEvents) = 1

\* C3: once an instruction has panicked, the loop test fails: the next thing
\* Run does is return, and no further instruction is fetched.
C3_NoStepAfterPanic ==
    /\ []((ctl = "loop" /\ panics > 0) => ~Running)
    /\ [][(ctl = "loop" /\ panics > 0)
            => (ctl' = "idle" /\ steps' = steps)]_vars

\* Run has returned after a panic on an invalid SYSTEM funct12, with fetches
\* to spare.
C3_Witness ==
    /\ ctl = "idle" /\ last.fetched /\ panics = 1
    /\ LastOpcode = RISBEE_OPINST_CALL /\ LastFunct12 = 2
    /\ steps < MaxSteps

\* C4: register 0 is 0 in every reachable state.
C4_RegisterZero == Registers[0] = Zero

\* ADDI x0, sp, 5 has executed with sp = 0x10000.
C4_Witness ==
    /\ Stepped
    /\ LastOpcode = RISBEE_OPINST_IMM /\ LastRd = 0 /\ LastRs1 = sp
    /\ last.regs[sp] = NatBits(RISBEE_STACK_SIZE)
    /\ panics = 0

\* C5 as stated: in a Run entered with PC = 0x1000, PC is a multiple of 4 at
\* every fetch.
C5_PcMultipleOf4 ==
    (ctl = "loop" /\ Running /\ startPc = NatBits(4096))
        => Pc \cap {0, 1} = {}

\* C5 amended: in a Run entered with PC = 0x1000, PC is a multiple of 2 at
\* every fetch.
C5_PcEven ==
    (ctl = "loop" /\ Running /\ startPc = NatBits(4096)) => 0 \notin Pc

\* JALR x0, 7(x0) has jumped to address 6 and the loop goes on.
C5_Witness ==
    /\ ctl = "loop" /\ Running /\ startPc = NatBits(4096)
    /\ last.fetched /\ LastOpcode = RISBEE_OPINST_JALR
    /\ Pc = NatBits(6)

\* The effective address and the width of the LOAD or STORE the last step
\* executed.
LastIsLoad == Stepped /\ LastOpcode = RISBEE_OPINST_LOAD /\ LastFunct3 # 7
LastIsStore == Stepped /\ LastOpcode = RISBEE_OPINST_STORE /\ LastFunct3 < 4
LastAddr ==
    Add64(last.regs[LastRs1],
          IF LastOpcode = RISBEE_OPINST_LOAD THEN immI(last.inst)
          ELSE immS(last.inst))
LastWidth == 2^(IF LastFunct3 = 6 THEN 2 ELSE LastFunct3 % 4)
LastOutOfRange ==
    ~(IsSmall(LastAddr) /\ ToNat(LastAddr) + LastWidth <= RISBEE_STACK_SIZE)

\* C6: a LOAD or STORE of width w at an address a with a + w > MEM_SIZE ends
\* in the VM panic: ExitCode -1, Running false, the panic callback invoked if
\* there is one.
C6_OutOfRangePanics ==
    (last.fetched /\ (LastIsLoad \/ LastIsStore \/ ctl = "aborted")
        /\ LastOpcode \in {RISBEE_OPINST_LOAD, RISBEE_OPINST_STORE}
        /\ LastOutOfRange)
        => /\ ctl # "aborted"
           /\ ExitCode = MinusOne
           /\ ~Running
           /\ Len(PanicEvents) = IF PanicCallback THEN 1 ELSE 0

\* C7: ECALL with a non-zero code in r17 that has no handler panics:
\* ExitCode -1, Running false, the panic callback invoked once if there is
\* one.
C7_UnknownSyscallPanics ==
    (LastIsEcall /\ last.regs[17] # Zero
        /\ last.regs[17] \notin DOMAIN SysCalls)
        => /\ ExitCode = MinusOne
           /\ ~Running
           /\ panics = 1
           /\ events = IF PanicCallback
                       THEN <<[cb |-> "panic", msg |-> "Invalid system call.",
                               arg |-> Zero, running |-> TRUE]>>
                       ELSE <<>>

\* Run has returned after ECALL with r17 = 1 and no handler for 1, and the
\* panic callback was invoked.
C7_Witness ==
    /\ ctl = "idle" /\ LastIsEcall
    /\ last.regs[17] = NatBits(1) /\ NatBits(1) \notin DOMAIN SysCalls
    /\ PanicCallback /\ Len(PanicEvents) = 1

C9_ExitCallbackOnce ==
    (LastIsEcall /\ last.regs[17] = Zero /\ ExitCallback)
        => /\ events = <<[cb |-> "exit", msg |-> "",
                          arg |-> last.regs[10], running |-> TRUE]>>
           /\ ~Running

\* exit(42) has executed with an exit callback registered.
C9_Witness ==
    /\ LastIsEcall /\ last.regs[17] = Zero /\ ExitCallback
    /\ last.regs[10] = NatBits(42)
    /\ Len(ExitEvents) = 1

\* The last step was an ECALL whose handler called Stop.
LastHandlerStopped ==
    /\ ctl = "loop" /\ LastIsEcall
    /\ last.regs[17] # Zero /\ last.regs[17] \in DOMAIN SysCalls
    /\ SysCalls[last.regs[17]].stop

\* C10: when the handler calls Stop, the ECALL still completes (r10 gets the
\* return value, PC advances by 4), ExitCode keeps its value, and Run
\* returns without another fetch.
C10_StopInHandler ==
    /\ [](LastHandlerStopped
            => /\ Registers[10] = SysCalls[last.regs[17]].ret
               /\ Pc = Add64(last.pc, NatBits(4))
               /\ ExitCode = last.exitCode
               /\ ~Running)
    /\ [][LastHandlerStopped => (ctl' = "idle" /\ steps' = steps)]_vars

\* Run has returned after an ECALL whose handler called Stop, with fetches to
\* spare and the next instruction in memory.
C10_Witness ==
    /\ ctl = "idle" /\ LastIsEcall
    /\ last.regs[17] = NatBits(1) /\ NatBits(1) \in DOMAIN SysCalls
    /\ SysCalls[NatBits(1)].stop
    /\ Registers[10] = NatBits(9)
    /\ steps < MaxSteps
    /\ MemAt(Memory, ToNat(Pc)) # 0

\* The addresses LoadFromBytes copies a slice of the given size to.
LoadWindow(size) == loadOffset..(loadOffset + size - 1)

\* The step is a call of LoadFromBytes.
LoadCalled == calls' = calls + 1 /\ loaded'.called

\* C11: LoadFromBytes returns false exactly for an empty slice and for one
\* longer than MEM_SIZE - 0x1000; when it returns true, the arena holds the
\* slice from 0x1000 on, every other byte is as before, and r2 is MEM_SIZE.
\* (Bytes are compared where the slice or the arena is not 0.)
C11_LoadFromBytes ==
    [][LoadCalled
        => LET d == loaded'.Data
               there == {a \in DOMAIN Memory' : a \in LoadWindow(d.size)}
           IN  /\ loadResult' = ~(d.size = 0 \/ d.size > 65536 - 4096)
               /\ loadResult'
                    => /\ \A i \in DOMAIN d.nz \cup {a - 4096 : a \in there} :
                             MemAt(Memory', 4096 + i) = MemAt(d.nz, i)
                       /\ \A a \in (DOMAIN Memory \cup DOMAIN Memory')
                                      \ LoadWindow(d.size) :
                             MemAt(Memory', a) = MemAt(Memory, a)
                       /\ Registers'[2] = NatBits(65536)]_vars

\* The longest slice that fits has been loaded over a program that a run
\* has left in the arena: its last byte is at the end of the arena.
C11_Witness ==
    /\ loaded.called /\ loaded.Data.size = 65536 - 4096 /\ loadResult
    /\ steps > 0
    /\ DOMAIN Memory = {65535}
    /\ Registers[2] = NatBits(65536)

\* C12: a LoadFromBytes call that follows a LoadFromBytes call with the same
\* payload changes neither the memory nor a register.
C12_LoadIdempotent ==
    [][(LoadCalled /\ loaded.called /\ loaded'.Data = loaded.Data)
        => (Memory' = Memory /\ Registers' = Registers)]_vars

\* A program image has been loaded twice in succession on a VM that was
\* initialized and has not run.
C12_Witness ==
    /\ loaded.called /\ loaded.twice /\ loadResult
    /\ ~SysCallsIsNil /\ steps = 0
    /\ DOMAIN Memory # {}

\* C14: Initialize leaves PC = 0x1000, ExitCode = 0, Running = false, an
\* empty syscall table (GetSystemCall finds no handler) and the callbacks it
\* was given, whatever the state before.
C14_Initialize ==
    [][\A e \in BOOLEAN, p \in BOOLEAN :
          (calls' = calls + 1 /\ CallInitialize(e, p))
              => /\ Pc' = NatBits(4096)
                 /\ ExitCode' = Zero
                 /\ ~Running'
                 /\ ~SysCallsIsNil'
                 /\ \A c \in SyscallCodes :
                       ~GetSystemCall([SysCalls |-> SysCalls'], c).ok
                 /\ ExitCallback' = e
                 /\ PanicCallback' = p]_vars

\* Initialize has been called after a run that ended in a panic: the exit
\* code, the PC and the table are reset, the callbacks were replaced.
C14_Witness ==
    /\ ctl = "idle" /\ steps > 0 /\ last = NoLast /\ ~loaded.called
    /\ Pc = NatBits(4096) /\ ExitCode = Zero /\ ~Running
    /\ ~SysCallsIsNil /\ SysCalls = <<>>
    /\ ExitCallback /\ PanicCallback

\* The R-type fields of the instruction the last step executed, the values
\* its source registers had, and the value its destination register has.
LastRs2 == Bits(last.inst, 20, 5)
LastKey == Bits(last.inst, 25, 7) * 8 + LastFunct3
LastIsOp(opcode, key) ==
    Stepped /\ LastOpcode = opcode /\ LastKey = key /\ LastRd # 0
LastA == last.regs[LastRs1]
LastB == last.regs[LastRs2]
LastResult == Registers[LastRd]

\* C16: SLL, SRL and SRA shift rs1 by the low 6 bits of rs2, for every value
\* of rs1 and rs2.
C16_ShiftAmountMod64 ==
    LET n == ToNat(And(LastB, 0..5))
    IN  /\ LastIsOp(RISBEE_OPINST_RT64, RISBEE_OPINST_RT64_SLL)
            => LastResult = Trunc(Shl(LastA, n), 64)
        /\ LastIsOp(RISBEE_OPINST_RT64, RISBEE_OPINST_RT64_SRL)
            => LastResult = Shr(LastA, n)
        /\ LastIsOp(RISBEE_OPINST_RT64, RISBEE_OPINST_RT64_SRA)
            => LastResult = Sar(LastA, n, 64)

\* The 128-bit patterns of a 64-bit value read as signed and as unsigned, and
\* the upper 64 bits of a 128-bit product.
Signed128(x) == IF 63 \in x THEN x \cup (64..127) ELSE x
Unsigned128(x) == x
High64(x, y) == Shr(MulW(x, y, 128), 64)

\* C17: MULH, MULHSU and MULHU write the upper 64 bits of the 128-bit product
\* (signed x signed, signed x unsigned, unsigned x unsigned).
C17_MulHighHalf ==
    /\ LastIsOp(RISBEE_OPINST_RT64, RISBEE_OPINST_RT64_MULH)
        => LastResult = High64(Signed128(LastA), Signed128(LastB))
    /\ LastIsOp(RISBEE_OPINST_RT64, RISBEE_OPINST_RT64_MULHSU)
        => LastResult = High64(Signed128(LastA), Unsigned128(LastB))
    /\ LastIsOp(RISBEE_OPINST_RT64, RISBEE_OPINST_RT64_MULHU)
        => LastResult = High64(Unsigned128(LastA), Unsigned128(LastB))

\* The last step executed the RT64 instruction of this key, and possibly
\* died in it.
LastIsDiv(key) ==
    last.fetched /\ LastOpcode = RISBEE_OPINST_RT64 /\ LastKey = key
        /\ LastRd # 0

\* The last instruction ended normally with this value in rd: the program
\* did not die, Running is still true, the exit code is untouched and PC has
\* advanced by 4.
LastGives(v) ==
    /\ ctl = "loop"
    /\ Running
    /\ ExitCode = last.exitCode
    /\ Pc = Add64(last.pc, NatBits(4))
    /\ LastResult = v

\* C18: DIV x,0 = -1, DIVU x,0 = 2^64-1, REM x,0 = x, REMU x,0 = x,
\* DIV INT64_MIN,-1 = INT64_MIN and REM INT64_MIN,-1 = 0, for every x; none
\* of them panics, Running stays true and PC advances by 4.
C18_DivisionCorners ==
    /\ (LastIsDiv(RISBEE_OPINST_RT64_DIV) /\ LastB = Zero)
        => LastGives(0..63)
    /\ (LastIsDiv(RISBEE_OPINST_RT64_DIVU) /\ LastB = Zero)
        => LastGives(0..63)
    /\ (LastIsDiv(RISBEE_OPINST_RT64_REM) /\ LastB = Zero)
        => LastGives(LastA)
    /\ (LastIsDiv(RISBEE_OPINST_RT64_REMU) /\ LastB = Zero)
        => LastGives(LastA)
    /\ (LastIsDiv(RISBEE_OPINST_RT64_DIV) /\ LastA = {63} /\ LastB = 0..63)
        => LastGives({63})
    /\ (LastIsDiv(RISBEE_OPINST_RT64_REM) /\ LastA = {63} /\ LastB = 0..63)
        => LastGives({})

\* REM of a value with bits on both sides of bit 31 by zero has given the
\* value back.
C18_Witness ==
    /\ LastIsDiv(RISBEE_OPINST_RT64_REM)
    /\ LastB = Zero
    /\ LastA = {0, 3, 31, 32, 40, 63}
    /\ LastGives({0, 3, 31, 32, 40, 63})

\* The 32-bit result of an OP-32 instruction on the low 32 bits of its
\* operands: the shifts take the low 5 bits of rs2, a zero divisor gives
\* all-ones (quotient) or the dividend (remainder), INT32_MIN / -1 gives
\* INT32_MIN and remainder 0.
Word32(key, a, b) ==
    LET x == Trunc(a, 32)
        y == Trunc(b, 32)
        n == ToNat(Trunc(b, 5))
        overflow == x = {31} /\ y = 0..31
    IN  CASE key = RISBEE_OPINST_RT32_ADDW -> AddW(x, y, 32)
          [] key = RISBEE_OPINST_RT32_SUBW -> SubW(x, y, 32)
          [] key = RISBEE_OPINST_RT32_SLLW -> Trunc(Shl(x, n), 32)
          [] key = RISBEE_OPINST_RT32_SRLW -> Shr(x, n)
          [] key = RISBEE_OPINST_RT32_SRAW -> Sar(x, n, 32)
          [] key = RISBEE_OPINST_RT32_MULW -> MulW(x, y, 32)
          [] key = RISBEE_OPINST_RT32_DIVW ->
                IF y = {} THEN 0..31
                ELSE IF overflow THEN {31} ELSE DivS(x, y, 32)
          [] key = RISBEE_OPINST_RT32_DIVUW ->
                IF y = {} THEN 0..31 ELSE DivU(x, y, 32)
          [] key = RISBEE_OPINST_RT32_REMW ->
                IF y = {} THEN x
                ELSE IF overflow THEN {} ELSE RemS(x, y, 32)
          [] key = RISBEE_OPINST_RT32_REMUW ->
                IF y = {} THEN x ELSE RemU(x, y, 32)

WordKeys ==
    {RISBEE_OPINST_RT32_ADDW, RISBEE_OPINST_RT32_SUBW,
     RISBEE_OPINST_RT32_SLLW, RISBEE_OPINST_RT32_SRLW,
     RISBEE_OPINST_RT32_SRAW, RISBEE_OPINST_RT32_MULW,
     RISBEE_OPINST_RT32_DIVW, RISBEE_OPINST_RT32_DIVUW,
     RISBEE_OPINST_RT32_REMW, RISBEE_OPINST_RT32_REMUW}

\* C19: every OP-32 instruction writes to rd the sign-extension of the
\* 32-bit result computed from the low 32 bits of rs1 and rs2.
C19_WordOpsSignExtend ==
    \A key \in WordKeys :
        LastIsOp(RISBEE_OPINST_RT32, key)
            => LastResult = SignExtend(Word32(key, LastA, LastB), 32)

\* The OP-IMM-32 instruction the last step executed: its shift amount (bits
\* 24..20) and its funct7.
LastShamt == Bits(last.inst, 20, 5)
LastFunct7 == Bits(last.inst, 25, 7)
LastIsWordImm(functionCode3, functionCode7s) ==
    /\ Stepped
    /\ LastOpcode = RISBEE_OPINST_IALU
    /\ LastFunct3 = functionCode3
    /\ LastFunct7 \in functionCode7s
    /\ LastRd # 0

\* C20: ADDIW, SLLIW, SRLIW and SRAIW write to rd the sign-extension of the
\* 32-bit result: rs1 plus the immediate truncated to 32 bits, or the low 32
\* bits of rs1 shifted by the 5-bit shamt.
C20_WordImmSignExtend ==
    LET x == Trunc(LastA, 32)
    IN  /\ LastIsWordImm(0, 0..127)
            => LastResult
                 = SignExtend(AddW(x, Trunc(immI(last.inst), 32), 32), 32)
        /\ LastIsWordImm(1, {0})
            => LastResult = SignExtend(Trunc(Shl(x, LastShamt), 32), 32)
        /\ LastIsWordImm(5, {0})
            => LastResult = SignExtend(Shr(x, LastShamt), 32)
        /\ LastIsWordImm(5, {32})
            => LastResult = SignExtend(Sar(x, LastShamt, 32), 32)

\* The loop is about to fetch a SYSTEM instruction, and does.
FetchesSystem ==
    /\ ctl = "loop"
    /\ Running
    /\ steps' = steps + 1
    /\ fetchInBounds(VM)
    /\ Bits(fetch(VM), 0, 7) = RISBEE_OPINST_CALL

\* C15: EBREAK sets ExitCode = -1 and Running = false and invokes neither
\* callback, and the next thing Run does is return; a SYSTEM instruction with
\* funct12 other than 0 and 1 panics.
C15_Ebreak ==
    /\ [][FetchesSystem
            => LET functionCode12 == Bits(fetch(VM), 20, 12)
               IN  /\ functionCode12 = 1
                        => /\ ExitCode' = MinusOne
                           /\ ~Running'
                           /\ events' = events
                           /\ panics' = panics
                           /\ ctl' = "loop"
                   /\ functionCode12 \notin {0, 1}
                        => /\ panics' = panics + 1
                           /\ ExitCode' = MinusOne
                           /\ ~Running'
                           /\ Len(events') = Len(events)
                                + (IF PanicCallback THEN 1 ELSE 0)]_vars
    /\ [][(ctl = "loop" /\ last.fetched
             /\ LastOpcode = RISBEE_OPINST_CALL /\ LastFunct12 = 1)
            => (ctl' = "idle" /\ steps' = steps)]_vars

\* Run has returned after an EBREAK with both callbacks registered: neither
\* was invoked.
C15_Witness ==
    /\ ctl = "idle" /\ last.fetched
    /\ LastOpcode = RISBEE_OPINST_CALL /\ LastFunct12 = 1
    /\ ExitCallback /\ PanicCallback
    /\ ExitCode = MinusOne /\ ~Running
    /\ events = <<>> /\ panics = 0 /\ steps = 1

\* The zero-extending LOAD of the width of a STORE: SB/LBU, SH/LHU,
\* SW/funct3 = 6, SD/LD.
UnsignedLoadOf(storeFunct3) ==
    CASE storeFunct3 = RISBEE_FC3_SB -> RISBEE_FC3_LBU
      [] storeFunct3 = RISBEE_FC3_SHW -> RISBEE_FC3_LHU
      [] storeFunct3 = RISBEE_FC3_SW -> RISBEE_FC3_LRES
      [] storeFunct3 = RISBEE_FC3_SDW -> RISBEE_FC3_LDW

\* The last step was a STORE of width w at an address a with a + w <=
\* MEM_SIZE, and the loop is about to execute the zero-extending LOAD of the
\* same width at the same address.
StoreThenLoad ==
    /\ ctl = "loop"
    /\ Running
    /\ steps' = steps + 1
    /\ LastIsStore
    /\ ~LastOutOfRange
    /\ fetchInBounds(VM)
    /\ LET inst == fetch(VM)
       IN  /\ Bits(inst, 0, 7) = RISBEE_OPINST_LOAD
           /\ Bits(inst, 12, 3) = UnsignedLoadOf(LastFunct3)
           /\ Bits(inst, 7, 5) # 0
           /\ Add64(Registers[Bits(inst, 15, 5)], immI(inst)) = LastAddr

\* C13: a STORE of width w of value v at an address a with a + w <= MEM_SIZE
\* followed by the zero-extending LOAD of width w at a yields v mod 2^(8w).
C13_StoreLoadRoundTrip ==
    [][StoreThenLoad
        => Registers'[Bits(fetch(VM), 7, 5)]
             = Trunc(last.regs[LastRs2], 8 * LastWidth)]_vars

\* SW of -1 to the last four bytes of the arena, then the funct3 = 6 load of
\* them, has given 0xFFFFFFFF.
C13_Witness ==
    /\ Stepped
    /\ LastOpcode = RISBEE_OPINST_LOAD /\ LastFunct3 = RISBEE_FC3_LRES
    /\ LastAddr = NatBits(RISBEE_STACK_SIZE - 4)
    /\ \A a \in (RISBEE_STACK_SIZE - 4)..(RISBEE_STACK_SIZE - 1) :
          MemAt(Memory, a) = 255
    /\ last.regs[6] = MinusOne
    /\ LastResult = 0..31
    /\ Running

\* C21: JALR sets PC to (rs1 + imm) with bit 0 cleared, computed from the
\* value rs1 had before the instruction, and writes the old PC + 4 to rd;
\* no further +4 is applied.
C21_Jalr ==
    (Stepped /\ LastOpcode = RISBEE_OPINST_JALR)
        => /\ Pc = Add64(LastA, immI(last.inst)) \ {0}
           /\ LastRd # 0 => LastResult = Add64(last.pc, NatBits(4))

\* JALR x5, 7(x5) at 0x1000 with x5 = 31: PC is 38 and x5 is 0x1004.
C21_Witness ==
    /\ Stepped /\ LastOpcode = RISBEE_OPINST_JALR
    /\ LastRd = LastRs1 /\ LastRd = 5
    /\ LastA = NatBits(31) /\ immI(last.inst) = NatBits(7)
    /\ Pc = NatBits(38)
    /\ Registers[5] = NatBits(4100)

\* The keys (funct7 << 3) | funct3 of the OP instructions.
RegisterKeys ==
    {RISBEE_OPINST_RT64_ADD, RISBEE_OPINST_RT64_SUB, RISBEE_OPINST_RT64_SLL,
     RISBEE_OPINST_RT64_SLT, RISBEE_OPINST_RT64_SLTU, RISBEE_OPINST_RT64_XOR,
     RISBEE_OPINST_RT64_SRL, RISBEE_OPINST_RT64_SRA, RISBEE_OPINST_RT64_OR,
     RISBEE_OPINST_RT64_AND, RISBEE_OPINST_RT64_MUL, RISBEE_OPINST_RT64_MULH,
     RISBEE_OPINST_RT64_MULHSU, RISBEE_OPINST_RT64_MULHU,
     RISBEE_OPINST_RT64_DIV, RISBEE_OPINST_RT64_DIVU,
     RISBEE_OPINST_RT64_REM, RISBEE_OPINST_RT64_REMU}

\* The word the last step executed is not a supported encoding.
LastUnsupported ==
    \/ LastOpcode \notin KnownOpcodes
    \/ LastOpcode = RISBEE_OPINST_IALU /\ LastFunct3 \notin {0, 1, 5}
    \/ LastOpcode = RISBEE_OPINST_IMM /\ LastFunct3 = RISBEE_FC3_SRLI
          /\ Bits(last.inst, 26, 6) \notin {0, 16}
    \/ LastOpcode = RISBEE_OPINST_LOAD /\ LastFunct3 = 7
    \/ LastOpcode = RISBEE_OPINST_STORE /\ LastFunct3 >= 4
    \/ LastOpcode = RISBEE_OPINST_BRANCH /\ LastFunct3 \in {2, 3}
    \/ LastOpcode = RISBEE_OPINST_RT64 /\ LastKey \notin RegisterKeys
    \/ LastOpcode = RISBEE_OPINST_RT32 /\ LastKey \notin WordKeys

\* C22: a word that is not a supported encoding, by its primary opcode or by
\* its funct3/funct7/funct6, ends with ExitCode = -1 and Running = false.
C22_UnsupportedPanics ==
    (Stepped /\ LastUnsupported) => (ExitCode = MinusOne /\ ~Running)

\* C23: no handler is ever invoked for code 0, and an ECALL with r17 = 0
\* takes the built-in exit path (the exit code and r10 are the value r10 had,
\* no handler and no panic), whatever is registered under code 0.
C23_CodeZeroReserved ==
    /\ \A i \in DOMAIN events :
          events[i].cb = "syscall" => events[i].arg # Zero
    /\ (LastIsEcall /\ last.regs[17] = Zero)
          => /\ ExitCode = last.regs[10]
             /\ Registers[10] = last.regs[10]
             /\ SyscallEvents = <<>>
             /\ panics = 0
             /\ Len(ExitEvents) = IF ExitCallback THEN 1 ELSE 0

\* exit(42) has executed with a handler registered under code 0.
C23_Witness ==
    /\ LastIsEcall /\ last.regs[17] = Zero
    /\ Zero \in DOMAIN SysCalls
    /\ last.regs[10] = NatBits(42)
    /\ ExitCode = NatBits(42)
    /\ events = <<>>

\* The host has just called GetStringPointer.
StringCalled == str'.called /\ str' # str

\* C24: GetStringPointer(0) returns "(null)"; for 0 < ptr < MEM_SIZE it
\* returns the bytes Memory[ptr .. e-1], e the smallest index >= ptr with
\* Memory[e] = 0, or MEM_SIZE if there is none; it modifies no VM state.
C24_GetStringPointer ==
    [][StringCalled
        => LET ptr == str'.Pointer
               s == str'.bytes
           IN  /\ UNCHANGED <<Memory, Registers, Pc, ExitCode, Running,
                              SysCalls, SysCallsIsNil, ExitCallback,
                              PanicCallback>>
               /\ ptr = Zero
                    => (ctl' = "idle"
                          /\ s = <<40, 110, 117, 108, 108, 41>>)
               /\ (ptr # Zero /\ LtU(ptr, NatBits(65536)))
                    => LET a == ToNat(ptr)
                           e == a + Len(s)
                       IN  /\ ctl' = "idle"
                           /\ e <= 65536
                           /\ \A i \in a..(e - 1) :
                                 /\ MemAt(Memory, i) # 0
                                 /\ s[i - a + 1] = MemAt(Memory, i)
                           /\ e = 65536 \/ MemAt(Memory, e) = 0]_vars

\* GetStringPointer(0xFFFF) has returned the one byte before the end of the
\* arena: there is no zero byte after it.
C24_Witness ==
    /\ str.called
    /\ str.Pointer = NatBits(65535)
    /\ str.bytes = <<1>>
    /\ MemAt(Memory, 65535) = 1
    /\ ctl = "idle"

\* The condition of the branch the last step executed, on the values rs1 and
\* rs2 had: signed order is unsigned order with the sign bits flipped.
LastBranchHolds ==
    LET flip(x) == (x \ {63}) \cup ({63} \ x)
        below == LtU(LastA, LastB)
        less == LtU(flip(LastA), flip(LastB))
    IN  CASE LastFunct3 = 0 -> LastA = LastB
          [] LastFunct3 = 1 -> LastA # LastB
          [] LastFunct3 = 4 -> less
          [] LastFunct3 = 5 -> ~less
          [] LastFunct3 = 6 -> below
          [] LastFunct3 = 7 -> ~below
          [] OTHER -> FALSE

LastPcPlus(x) == Add64(last.pc, x)

\* C25: after JAL, PC = old PC + imm(J) and rd = old PC + 4; after a branch
\* whose condition holds, PC = old PC + imm(B); after every other executed
\* instruction except JALR, PC = old PC + 4.
C25_PcManagement ==
    Stepped
        => CASE LastOpcode = RISBEE_OPINST_JAL ->
                    /\ Pc = LastPcPlus(immJ(last.inst))
                    /\ LastRd # 0 => LastResult = LastPcPlus(NatBits(4))
             [] LastOpcode = RISBEE_OPINST_JALR -> TRUE
             [] LastOpcode = RISBEE_OPINST_BRANCH ->
                    Pc = LastPcPlus(IF LastBranchHolds THEN immB(last.inst)
                                    ELSE NatBits(4))
             [] OTHER -> Pc = LastPcPlus(NatBits(4))

\* BLT x5, x6, +12 at 0x1000 with x5 = INT64_MIN and x6 = 1 was taken: PC is
\* 0x100C.
C25_Witness ==
    /\ Stepped /\ LastOpcode = RISBEE_OPINST_BRANCH
    /\ LastFunct3 = RISBEE_FC3_BLT
    /\ LastA = INT64_MIN /\ LastB = NatBits(1)
    /\ last.pc = NatBits(4096)
    /\ Pc = NatBits(4096 + 12)

\* The loop is about to execute a LOAD of a supported width into a register
\* other than r0, at an address a with a + w <= MEM_SIZE.
LoadsInRange ==
    /\ ctl = "loop"
    /\ Running
    /\ steps' = steps + 1
    /\ fetchInBounds(VM)
    /\ LET inst == fetch(VM)
           addr == Add64(Registers[Bits(inst, 15, 5)], immI(inst))
           w == 2^(IF Bits(inst, 12, 3) = 6 THEN 2 ELSE Bits(inst, 12, 3) % 4)
       IN  /\ Bits(inst, 0, 7) = RISBEE_OPINST_LOAD
           /\ Bits(inst, 12, 3) # 7
           /\ Bits(inst, 7, 5) # 0
           /\ LeU(addr, NatBits(65536 - w))

\* The w bytes of memory at a as a little-endian number.
LittleEndianAt(M, a, w) ==
    UNION {Shl(NatBits(MemAt(M, a + i)), 8 * i) : i \in 0..(w - 1)}

\* C26: an in-range LOAD writes to rd the little-endian value of the w bytes
\* at the address, sign-extended for LB, LH and LW, zero-extended for LBU,
\* LHU and funct3 = 6, all 64 bits for LD, at any alignment.
C26_LoadExtends ==
    [][LoadsInRange
        => LET inst == fetch(VM)
               functionCode3 == Bits(inst, 12, 3)
               a == ToNat(Add64(Registers[Bits(inst, 15, 5)], immI(inst)))
               w == 2^(IF functionCode3 = 6 THEN 2 ELSE functionCode3 % 4)
               v == LittleEndianAt(Memory, a, w)
           IN  Registers'[Bits(inst, 7, 5)]
                 = IF functionCode3 \in {0, 1, 2} /\ (8 * w - 1) \in v
                   THEN v \cup ((8 * w)..63)
                   ELSE v]_vars

\* LH at 0xFFF1, one byte above an SD of -1 at 0xFFF0, has given -1.
C26_Witness ==
    /\ Stepped /\ LastOpcode = RISBEE_OPINST_LOAD
    /\ LastFunct3 = RISBEE_FC3_LHW
    /\ LastAddr = NatBits(65536 - 15)
    /\ MemAt(Memory, 65536 - 15) = 255 /\ MemAt(Memory, 65536 - 14) = 255
    /\ LastRd = 7 /\ Registers[7] = MinusOne

\* The loop is about to execute an instruction.
Executes ==
    /\ ctl = "loop"
    /\ Running
    /\ steps' = steps + 1
    /\ fetchInBounds(VM)

\* The bytes that differ between two memories.
Changed(M, N) == {a \in DOMAIN M \cup DOMAIN N : MemAt(M, a) # MemAt(N, a)}

\* C27: a STORE of width w at an address a with a + w <= MEM_SIZE sets the
\* bytes Memory[a .. a+w-1] to the low 8w bits of rs2, little-endian, and
\* changes no other byte and no register; every other instruction leaves
\* memory unchanged.
C27_StoreFrame ==
    [][Executes
        => LET inst == fetch(VM)
               functionCode3 == Bits(inst, 12, 3)
               addr == Add64(Registers[Bits(inst, 15, 5)], immS(inst))
               w == 2^(functionCode3 % 4)
               val == Registers[Bits(inst, 20, 5)]
           IN  /\ (Bits(inst, 0, 7) = RISBEE_OPINST_STORE
                     /\ functionCode3 < 4
                     /\ LeU(addr, NatBits(65536 - w)))
                    => LET a == ToNat(addr)
                       IN  /\ \A i \in 0..(w - 1) :
                                 NatBits(MemAt(Memory', a + i))
                                   = Trunc(Shr(val, 8 * i), 8)
                           /\ Changed(Memory, Memory') \subseteq a..(a + w - 1)
                           /\ Registers' = Registers
               /\ Bits(inst, 0, 7) # RISBEE_OPINST_STORE
                    => Changed(Memory, Memory') = {}]_vars

\* SH of 0x7FFFFFFF to address 3 has set bytes 3 and 4 and nothing else
\* outside the program.
C27_Witness ==
    /\ Stepped /\ LastOpcode = RISBEE_OPINST_STORE
    /\ LastFunct3 = RISBEE_FC3_SHW
    /\ LastAddr = NatBits(3)
    /\ last.regs[6] = 0..30
    /\ MemAt(Memory, 3) = 255 /\ MemAt(Memory, 4) = 255
    /\ DOMAIN Memory \cap (0..4095) = {3, 4}
    /\ Registers = last.regs

\* C28: when the loop fetches with PC + 4 > MEM_SIZE, the VM takes the panic
\* path (ExitCode = -1, Running = false, the panic callback invoked if
\* there is one) and Run goes on to return; the host does not die.
C28_FetchBoundsChecked ==
    [][(ctl = "loop" /\ Running /\ steps' = steps + 1 /\ ~fetchInBounds(VM))
        => /\ ctl' = "loop"
           /\ ExitCode' = MinusOne
           /\ ~Running'
           /\ panics' = 1
           /\ Len(events') = IF PanicCallback THEN 1 ELSE 0]_vars

\* C29: an instruction that panics changes no register and no memory byte.
C29_PanicFrame ==
    [][(Executes /\ panics' > 0)
        => (Registers' = Registers /\ Changed(Memory, Memory') = {})]_vars

\* C30: a LoadFromBytes call that returns false leaves every memory byte,
\* every register, PC, ExitCode and Running as they were.
C30_FailedLoadFrame ==
    [][(LoadCalled /\ ~loadResult')
        => UNCHANGED <<Memory, Registers, Pc, ExitCode, Running, SysCalls,
                       SysCallsIsNil, ExitCallback, PanicCallback>>]_vars

\* LoadFromBytes of 61441 bytes has returned false on a VM that holds a
\* program and has run it.
C30_Witness ==
    /\ loaded.called /\ ~loadResult
    /\ loaded.Data.size = 65536 - 4096 + 1
    /\ DOMAIN Memory # {}
    /\ Registers[2] = NatBits(65536)
    /\ steps > 0

\* The step is a call of Initialize.
InitializeCalled ==
    ctl = "idle" /\ ctl' = "idle" /\ calls' = calls + 1 /\ ~loaded'.called

\* The bytes of M and N agree everywhere outside the window of a slice of
\* the given size.
SameOutside(M, N, size) ==
    \A a \in (DOMAIN M \cup DOMAIN N) \ LoadWindow(size) :
        MemAt(M, a) = MemAt(N, a)

\* A run has executed instructions and Initialize has been called since.
Reinitialized ==
    /\ ctl = "idle" /\ steps > 0
    /\ ~loaded.called /\ last = NoLast
    /\ Pc = NatBits(4096) /\ ExitCode = Zero /\ SysCalls = <<>>
    /\ ~SysCallsIsNil

\* C31 as stated: Initialize changes neither Memory nor Registers, and a
\* successful LoadFromBytes on a VM initialized again after a run leaves every
\* register and every memory byte outside the loaded image as the run left
\* them.
C31_AllRegistersKept ==
    /\ [][InitializeCalled
            => (Memory' = Memory /\ Registers' = Registers)]_vars
    /\ [][(Reinitialized /\ LoadCalled /\ loadResult')
            => /\ Registers' = Registers
               /\ SameOutside(Memory, Memory', loaded'.Data.size)]_vars

\* C31: Initialize changes neither Memory nor Registers, and a successful
\* LoadFromBytes leaves every memory byte outside the loaded image and every
\* register other than r2 as they were; r2 becomes 65536 whatever the
\* previous run left in it.
C31_ReinitializeFrame ==
    /\ [][InitializeCalled
            => (Memory' = Memory /\ Registers' = Registers)]_vars
    /\ [][(LoadCalled /\ loadResult')
            => /\ \A r \in (0..31) \ {sp} : Registers'[r] = Registers[r]
               /\ Registers'[sp] = NatBits(RISBEE_STACK_SIZE)
               /\ SameOutside(Memory, Memory', loaded'.Data.size)]_vars

\* A run of four instructions has lowered r2, stored at the new top of the
\* stack and set r5; the VM has then been initialized again and a
\* three-word image loaded: r5, the stored bytes and the fourth word of the
\* old image are still there, and r2 is 65536 again.
C31_Witness ==
    /\ ctl = "idle" /\ steps = 4
    /\ loaded.called /\ loadResult /\ loaded.Data.size = 12
    /\ Pc = NatBits(4096) /\ ExitCode = Zero
    /\ Registers[5] = NatBits(7)
    /\ Registers[sp] = NatBits(RISBEE_STACK_SIZE)
    /\ MemAt(Memory, RISBEE_STACK_SIZE - 16) # 0
    /\ MemAt(Memory, loadOffset + 12) # 0

\* The step is the entry of Run.
RunCalled == ctl = "idle" /\ ctl' # "idle" /\ calls' = calls + 1

\* Run has returned because the handler of the last ECALL called Stop, and
\* the host has called nothing since.
ReturnedAfterStop ==
    /\ ctl = "idle" /\ LastIsEcall
    /\ last.regs[17] # Zero /\ last.regs[17] \in DOMAIN SysCalls
    /\ SysCalls[last.regs[17]].stop

\* The step is the first iteration of the loop of a call of Run.
FirstIteration ==
    ctl = "loop" /\ last = NoLast /\ Running /\ steps' = steps + 1

\* C32: Run sets Running to true whatever it was and enters its loop with
\* PC, registers, memory and ExitCode as they are; entered after a Stop made
\* by the handler of an ECALL, it starts at the address of the ECALL plus 4,
\* and the first iteration of every Run fetches at the PC Run was entered
\* with.
C32_RunResumes ==
    /\ [][RunCalled
            => /\ Running' /\ ctl' = "loop"
               /\ UNCHANGED <<Pc, Registers, Memory, ExitCode>>]_vars
    /\ [][(RunCalled /\ ReturnedAfterStop)
            => (~Running /\ startPc' = Add64(last.pc, NatBits(4)))]_vars
    /\ [][(FirstIteration /\ fetchInBounds(VM))
            => /\ last'.fetched /\ last'.pc = startPc
               /\ last'.inst = fetch([VM EXCEPT !.Pc = startPc])
               /\ last'.regs = Registers
               /\ last'.exitCode = ExitCode]_vars

\* A first Run ended in the handler of the ECALL at 0x1004, which called
\* Stop and returned 9; a second Run has executed the instruction at 0x1008,
\* which set r5 to 1, with r10 still 9.
C32_Witness ==
    /\ ctl = "loop" /\ steps = 3 /\ calls = 2
    /\ NatBits(1) \in DOMAIN SysCalls /\ SysCalls[NatBits(1)].stop
    /\ startPc = NatBits(loadOffset + 8)
    /\ last.fetched /\ last.pc = startPc
    /\ last.inst = LI(5, 1)
    /\ Registers[5] = NatBits(1)
    /\ Registers[a0] = NatBits(9)
    /\ Registers[a7] = NatBits(1)
    /\ Running
====
